---- MODULE Spec2Model ----
(***************************************************************************)
(* Model of the streaming run-result state machine of openai-agents-go     *)
(* (agents/result.go): RunResultStreaming with its event queue, its        *)
(* input-guardrail queue, the three background tasks, StreamEvents,        *)
(* Cancel, checkErrors, awaitTasks and cleanupTasks.                       *)
(*                                                                         *)
(* StreamEvents and Cancel run concurrently with the background tasks and  *)
(* with each other, so each is split at its operations on shared state: a  *)
(* checkErrors poll, the load of the completion flag, the emptiness test,   *)
(* the blocking Get (with the visitor call, which touches no shared        *)
(* state), awaitTasks, and each pop of a drain loop are steps of their own.*)
(* cDone counts the Cancel calls that returned (none, one, more).          *)
(* The bodies of the background tasks, the queue and the task handle are   *)
(* not part of agents/result.go; they follow the repository's              *)
(* specification: tasks are launched at the start of the run, the          *)
(* run-execution task marks the state complete and pushes the sentinel as  *)
(* its final queue operation.                                              *)
(***************************************************************************)
EXTENDS Integers, Sequences, FiniteSets

\* ---------------------------------------------------------------- bounds
MaxTurnsLimit == 2
MaxNeedTurns == 2
MaxGuardrailResults == 1
MaxNewItems == 2
MaxRawResponses == 4
MaxAppend == 2
MaxStreamEvents == 2

\* ---------------------------------------------------------------- state
VARIABLES
    started,
    newItems,
    rawResponses,
    finalOutput,
    currentAgent,
    currentTurn,
    maxTurns,
    isComplete,
    eventQueue,
    inputGuardrailQueue,
    runImplTask,
    inputGuardrailsTask,
    outputGuardrailsTask,
    storedError,
    storedRunData,
    needTurns,
    rPc,
    rOutcome,
    igCount,
    sePc,
    seRet,
    seVisits,
    seAfterCancel,
    seAfterSentinel,
    sentinelConsumed,
    cPc,
    cDone,
    visited,
    pushed,
    drained,
    bothPolled,
    tripDrained,
    tripPushed,
    cancelSawBlocked,
    input,
    listResults,
    converted,
    lastAppended,
    lastIDResult,
    stateStore,
    svcPc,
    req,
    skipPublishing,
    published,
    failedNotified,
    completedNotified,
    summaryError,
    traceErr,
    taskResult,
    streamLeft,
    streamEndErr,
    resumeResult,
    resolveResult,
    call,
    heap,
    rawHeader,
    committed,
    appendCalls,
    wPc,
    wHeader,
    wArgs,
    wTarget,
    wIdx,
    rdPc,
    rdHeader,
    reads,
    polls,
    pollRecorded,
    taskErrorData,
    inputGuardrailResults,
    pollTaken

fieldVars == <<newItems, rawResponses, finalOutput, currentAgent, currentTurn, maxTurns>>
queueVars == <<eventQueue, inputGuardrailQueue>>
taskVars == <<runImplTask, inputGuardrailsTask, outputGuardrailsTask>>
runVars == <<needTurns, rPc, rOutcome>>
streamVars == <<sePc, seRet, seVisits, seAfterCancel, seAfterSentinel, sentinelConsumed,
               visited, bothPolled, tripDrained>>
cancelVars == <<cPc, cDone, drained, cancelSawBlocked>>
\* the variables of the conversions of a result (ToInputItem, ToInputList)
itemVars == <<input, listResults, converted>>
\* the variables of the calls of LastResponseID
respVars == <<lastAppended, lastIDResult>>
\* what a run of the streaming state machine leaves alone
\* the variables of the runner service
serviceVars == <<stateStore, svcPc, req, skipPublishing, published, failedNotified,
                 completedNotified, summaryError, traceErr, taskResult, streamLeft,
                 streamEndErr, resumeResult>>
\* the variables of the calls of ResolveApproval
approvalVars == <<resolveResult>>
\* the variables of the calls modelled on their own
\* the memory behind RawResponses(), its writer and a reader
accessorVars == <<heap, rawHeader, committed, appendCalls, wPc, wHeader, wArgs, wTarget,
                  wIdx, rdPc, rdHeader, reads>>
\* the polls of checkErrors taken on their own
pollVars == <<polls, pollRecorded, taskErrorData, inputGuardrailResults, pollTaken>>
callVars == <<approvalVars, call, accessorVars, pollVars>>
otherVars == <<itemVars, respVars, serviceVars, callVars>>
\* what the conversions and LastResponseID leave alone
streamingRest == <<started, finalOutput, currentAgent, currentTurn, maxTurns, isComplete,
                   eventQueue, inputGuardrailQueue, runImplTask, inputGuardrailsTask,
                   outputGuardrailsTask, storedError, storedRunData, needTurns, rPc,
                   rOutcome, igCount, sePc, seRet, seVisits, seAfterCancel,
                   seAfterSentinel, sentinelConsumed, visited, bothPolled, tripDrained, cPc, cDone,
                   drained, cancelSawBlocked, pushed, tripPushed, callVars>>
vars == <<otherVars, started, fieldVars, isComplete, queueVars, taskVars, storedError, storedRunData,
          runVars,
          igCount, streamVars, cancelVars, pushed, tripPushed>>

\* ---------------------------------------------------------------- values
NoError == "nil"
MaxTurnsExceededError == "max_turns"
InputGuardrailTripwireTriggeredError == "tripwire"
RunImplTaskError == "run_task"
InputGuardrailsTaskError == "ig_task"
OutputGuardrailsTaskError == "og_task"
VisitorError == "visitor"

queueCompleteSentinel == [id |-> 0, kind |-> "sentinel"]

\* the result of a call that has not been made
NoResult == [kind |-> "no_result"]

\* the Input of a run: a string or a list of input items
InputString(str) == [kind |-> "string", value |-> str]
InputItems(items) == [kind |-> "items", value |-> items]

\* agents are numbered from 1; no current agent is 0
NilAgent == 0

\* the RunData of the stored error: none yet, the snapshot checkErrors
\* attached, or whatever the wrapped error of a task carries
NoRunData == [kind |-> "none"]
TaskRunData == [kind |-> "task"]

NilTask == [st |-> "nil", err |-> FALSE, cancelled |-> FALSE]
RunningTask == [st |-> "running", err |-> FALSE, cancelled |-> FALSE]

\* asynctask: IsDone, Cancel and the error of the awaited result
IsDone(t) == t.st = "done"

TaskCancel(t) == [t EXCEPT !.cancelled = TRUE]

TaskFinish(t, e) == [st |-> "done", err |-> e, cancelled |-> FALSE]

\* asyncqueue: Put, IsEmpty, and the head/tail that Get and GetNoWait split
Put(q, x) == Append(q, x)

IsEmpty(q) == Len(q) = 0

\* ---------------------------------------------------------------- pure helpers
\* variant: the id of the first response
lastResponseID_First(rs) ==
    IF Len(rs) = 0 THEN "" ELSE rs[1].ResponseID

lastResponseID(rs) == IF Len(rs) = 0 THEN "" ELSE rs[Len(rs)].ResponseID

\* variant: the limit itself already counts as exceeded
TurnLimitExceeded_AtLimit(turn, limit) == turn >= limit

TurnLimitExceeded(turn, limit) == turn > limit

\* awaitTasks returns once every created task that was not done has finished
\* variant: the run-execution task is not waited for
TasksConverged_GuardrailsOnly(rt, it, ot) ==
    /\ it.st # "running"
    /\ ot.st # "running"

TasksConverged(rt, it, ot) ==
    /\ rt.st # "running"
    /\ it.st # "running"
    /\ ot.st # "running"

\* cleanupTasks on one task
CleanupTask(t) == IF t.st # "nil" /\ ~IsDone(t) THEN TaskCancel(t) ELSE t

\* ---------------------------------------------------------------- Init
\* the fields of a new RunResultStreaming, no call made yet
newRunResultStreaming ==
    /\ started = FALSE
    /\ newItems = <<>>
    /\ rawResponses = <<>>
    /\ finalOutput = 0
    /\ currentAgent = NilAgent
    /\ currentTurn = 0
    /\ maxTurns = 0
    /\ isComplete = FALSE
    /\ eventQueue = <<>>
    /\ inputGuardrailQueue = <<>>
    /\ runImplTask = NilTask
    /\ inputGuardrailsTask = NilTask
    /\ outputGuardrailsTask = NilTask
    /\ storedError = NoError
    /\ storedRunData = NoRunData
    /\ needTurns = 0
    /\ rPc = "none"
    /\ rOutcome = "none"
    /\ igCount = 0
    /\ sePc = "idle"
    /\ seRet = NoError
    /\ seVisits = 0
    /\ seAfterCancel = FALSE
    /\ seAfterSentinel = FALSE
    /\ sentinelConsumed = FALSE
    /\ cPc = "idle"
    /\ cDone = 0
    /\ visited = <<>>
    /\ pushed = <<>>
    /\ drained = 0
    /\ bothPolled = FALSE
    /\ tripDrained = FALSE
    /\ tripPushed = FALSE
    /\ cancelSawBlocked = FALSE

\* no conversion and no LastResponseID call made yet
\* the three background tasks
TaskNames == {"run_impl", "input_guardrails", "output_guardrails"}

\* a slice header: the backing array (0 for none) and the length
SliceHeader(arr, len) == [arr |-> arr, len |-> len]

\* newZeroValAtomicPointer: the pointer holds the nil slice; nobody is
\* reading or appending
NoAccess ==
    /\ heap = <<>>
    /\ rawHeader = SliceHeader(0, 0)
    /\ committed = <<<<>>>>
    /\ appendCalls = 0
    /\ wPc = "idle"
    /\ wHeader = SliceHeader(0, 0)
    /\ wArgs = <<>>
    /\ wTarget = 0
    /\ wIdx = 0
    /\ rdPc = "idle"
    /\ rdHeader = SliceHeader(0, 0)
    /\ reads = <<>>

NoCalls ==
    /\ listResults = <<>>
    /\ converted = NoResult
    /\ lastAppended = NoResult
    /\ lastIDResult = NoResult
    /\ resolveResult = NoResult
    /\ call = NoResult
    /\ NoAccess
    /\ polls = 0
    /\ pollRecorded = <<>>
    /\ taskErrorData = [t \in TaskNames |-> NoRunData]
    /\ inputGuardrailResults = <<>>
    /\ pollTaken = <<>>

\* ---------------------------------------------------------------- runner service values
\* strings are sequences of characters, so that trimming is computed
RECURSIVE TrimLeft(_)
TrimLeft(str) ==
    IF Len(str) > 0 /\ Head(str) = " " THEN TrimLeft(Tail(str)) ELSE str

RECURSIVE TrimRight(_)
TrimRight(str) ==
    IF Len(str) > 0 /\ str[Len(str)] = " "
      THEN TrimRight(SubSeq(str, 1, Len(str) - 1)) ELSE str

\* strings.TrimSpace
TrimSpace(str) == TrimRight(TrimLeft(str))

\* the session ids a request can carry; the store is keyed by session id
SessionKeys == {<<>>, <<" ">>, <<"s">>, <<" ", "s">>}

\* the execution statuses
ExecutionStatusIdle == "idle"
ExecutionStatusRunning == "running"
ExecutionStatusWaitingApproval == "waiting_approval"
ExecutionStatusFailed == "failed"

ExecutionStatuses ==
    {ExecutionStatusIdle, ExecutionStatusRunning, ExecutionStatusWaitingApproval,
     ExecutionStatusFailed}

\* no execution state stored for a session
NoState == [kind |-> "no_state"]

WorkflowExecutionState(token, status, workflow) ==
    [kind |-> "state", ResumeToken |-> token, Status |-> status, WorkflowName |-> workflow]

\* no request is being executed, none has been
NoRequest == [SessionID |-> <<>>, WorkflowName |-> <<>>]

ServiceIdle ==
    /\ svcPc = "idle"
    /\ req = NoRequest
    /\ skipPublishing = FALSE
    /\ published = <<>>
    /\ failedNotified = 0
    /\ completedNotified = 0
    /\ summaryError = NoError
    /\ traceErr = NoError
    /\ taskResult = NoResult
    /\ streamLeft = 0
    /\ streamEndErr = FALSE
    /\ resumeResult = NoResult

\* a runner service with an empty state store, nothing executed yet
NewRunnerService ==
    /\ stateStore = [k \in SessionKeys |-> NoState]
    /\ ServiceIdle

Init ==
    /\ newRunResultStreaming
    /\ input = InputItems(<<>>)
    /\ NoCalls
    /\ NewRunnerService

\* ---------------------------------------------------------------- start of a run
\* Start: state initialised, background tasks launched, state = Running.
RunStreamed ==
    /\ ~started
    /\ \E mt \in 1..MaxTurnsLimit, need \in 1..MaxNeedTurns, withIG \in BOOLEAN, withOG \in BOOLEAN :
        /\ maxTurns' = mt
        /\ needTurns' = need
        /\ inputGuardrailsTask' = IF withIG THEN RunningTask ELSE NilTask
        /\ outputGuardrailsTask' = IF withOG THEN RunningTask ELSE NilTask
    /\ started' = TRUE
    /\ currentAgent' = 1
    /\ runImplTask' = RunningTask
    /\ rPc' = "loop"
    /\ UNCHANGED <<otherVars, newItems, rawResponses, finalOutput, currentTurn, isComplete, queueVars,
                   storedError, storedRunData, rOutcome, igCount, streamVars, cancelVars, pushed, tripPushed>>

\* ---------------------------------------------------------------- run-execution task
ResponseIDs == <<"resp_1", "resp_2", "resp_3", "resp_4", "resp_5", "resp_6">>

NextEvent(kind) == [id |-> Len(pushed) + 1, kind |-> kind]

\* the cancellation flag is observed at a suspension point of the task
RunSuspended == rPc \in {"loop", "model", "final"}

\* advance the turn counter; past the limit the task stops taking turns
\* (every way the task ends marks the state complete)
RunTurn ==
    /\ rPc = "loop"
    /\ currentTurn' = currentTurn + 1
    /\ IF currentTurn + 1 > maxTurns
         THEN rPc' = "sentinel" /\ rOutcome' = "max_turns" /\ isComplete' = TRUE
         ELSE rPc' = "model" /\ UNCHANGED <<rOutcome, isComplete>>
    /\ UNCHANGED <<otherVars, started, newItems, rawResponses, finalOutput, currentAgent, maxTurns,
                   queueVars, taskVars, storedError, storedRunData, needTurns, igCount,
                   streamVars, cancelVars, pushed, tripPushed>>

\* the model call of a turn: append the raw response and the new item it
\* produced, and push the run-item event
RunModel ==
    /\ rPc = "model"
    /\ rawResponses' = Append(rawResponses, [ResponseID |-> ResponseIDs[currentTurn]])
    /\ newItems' = Append(newItems, currentTurn)
    /\ eventQueue' = Put(eventQueue, NextEvent("item"))
    /\ pushed' = Append(pushed, NextEvent("item"))
    /\ rPc' = IF currentTurn >= needTurns THEN "final" ELSE "loop"
    /\ UNCHANGED <<otherVars, started, finalOutput, currentAgent, currentTurn, maxTurns,
                   isComplete, inputGuardrailQueue, taskVars, storedError, storedRunData, needTurns,
                   rOutcome, igCount, streamVars, cancelVars, tripPushed>>

\* the model call (or a tool of the turn) fails: the task will report an error
RunModelFails ==
    /\ rPc = "model"
    /\ rPc' = "sentinel"
    /\ rOutcome' = "failed"
    /\ isComplete' = TRUE
    /\ UNCHANGED <<otherVars, started, fieldVars, queueVars, taskVars, storedError, storedRunData,
                   needTurns, igCount, streamVars, cancelVars, pushed,
                   tripPushed>>

\* natural completion: final output captured, state marked complete
RunFinal ==
    /\ rPc = "final"
    /\ finalOutput' = currentTurn
    /\ rPc' = "sentinel"
    /\ rOutcome' = "natural"
    /\ isComplete' = TRUE
    /\ UNCHANGED <<otherVars, started, newItems, rawResponses, currentAgent, currentTurn, maxTurns,
                   queueVars, taskVars, storedError, storedRunData, needTurns, igCount,
                   streamVars, cancelVars, pushed, tripPushed>>

\* cooperative cancellation: the task sees the flag and stops producing;
\* whether it still reports an error and pushes the sentinel is left open
RunCancelled ==
    /\ RunSuspended
    /\ runImplTask.cancelled
    /\ \E how \in {"cancelled", "cancelled_err", "cancelled_silent"} : rOutcome' = how
    /\ rPc' = "sentinel"
    /\ isComplete' = TRUE
    /\ UNCHANGED <<otherVars, started, fieldVars, queueVars, taskVars, storedError, storedRunData,
                   needTurns, igCount, streamVars, cancelVars, pushed,
                   tripPushed>>

\* pushing the sentinel is the task's final queue operation
RunSentinel ==
    /\ rPc = "sentinel"
    /\ eventQueue' = IF rOutcome = "cancelled_silent" THEN eventQueue
                     ELSE Put(eventQueue, queueCompleteSentinel)
    /\ rPc' = "exit"
    /\ UNCHANGED <<otherVars, started, fieldVars, isComplete, inputGuardrailQueue, taskVars,
                   storedError, storedRunData, needTurns, rOutcome, igCount, streamVars, cancelVars,
                   pushed, tripPushed>>

\* the task reports its result exactly once
RunExit ==
    /\ rPc = "exit"
    /\ runImplTask' = TaskFinish(runImplTask, rOutcome \in {"failed", "cancelled_err"})
    /\ rPc' = "done"
    /\ UNCHANGED <<otherVars, started, fieldVars, isComplete, queueVars, inputGuardrailsTask,
                   outputGuardrailsTask, storedError, storedRunData, needTurns, rOutcome, igCount,
                   streamVars, cancelVars, pushed, tripPushed>>

\* ---------------------------------------------------------------- guardrail tasks
\* the input-guardrail task pushes one verdict per guardrail
InputGuardrailResult ==
    /\ inputGuardrailsTask.st = "running"
    /\ igCount < MaxGuardrailResults
    /\ \E tripped \in BOOLEAN :
        /\ inputGuardrailQueue' = Put(inputGuardrailQueue, [TripwireTriggered |-> tripped])
        /\ tripPushed' = (tripPushed \/ tripped)
    /\ igCount' = igCount + 1
    /\ UNCHANGED <<otherVars, started, fieldVars, isComplete, eventQueue, taskVars, storedError, storedRunData,
                   runVars, streamVars, cancelVars, pushed>>

InputGuardrailsExit ==
    /\ inputGuardrailsTask.st = "running"
    /\ \E e \in BOOLEAN : inputGuardrailsTask' = TaskFinish(inputGuardrailsTask, e)
    /\ UNCHANGED <<otherVars, started, fieldVars, isComplete, queueVars, runImplTask,
                   outputGuardrailsTask, storedError, storedRunData, runVars, igCount, streamVars,
                   cancelVars, pushed, tripPushed>>

OutputGuardrailsExit ==
    /\ outputGuardrailsTask.st = "running"
    /\ \E e \in BOOLEAN : outputGuardrailsTask' = TaskFinish(outputGuardrailsTask, e)
    /\ UNCHANGED <<otherVars, started, fieldVars, isComplete, queueVars, runImplTask,
                   inputGuardrailsTask, storedError, storedRunData, runVars, igCount, streamVars,
                   cancelVars, pushed, tripPushed>>

\* ---------------------------------------------------------------- checkErrors
\* the turn-limit check: the error it records, if any
\* variant: the error is recorded at the limit already
TurnLimitErrors_AtLimit(turn, limit) ==
    IF turn >= limit THEN <<MaxTurnsExceededError>> ELSE <<>>

TurnLimitErrors(turn, limit) ==
    IF TurnLimitExceeded(turn, limit) THEN <<MaxTurnsExceededError>> ELSE <<>>

\* the drain of the input-guardrail queue: one error per tripped result
RECURSIVE GuardrailErrors(_)
GuardrailErrors(q) ==
    IF IsEmpty(q) THEN <<>>
    ELSE (IF Head(q).TripwireTriggered
            THEN <<InputGuardrailTripwireTriggeredError>> ELSE <<>>)
         \o GuardrailErrors(Tail(q))

\* one task check: a created task that is done with an error records its wrapping
\* variant: the error of a finished task is not looked at
TaskErrors_SkipDone(t, wrapped) ==
    IF t.st # "nil" /\ ~IsDone(t) /\ t.err THEN <<wrapped>> ELSE <<>>

TaskErrors(t, wrapped) ==
    IF t.st # "nil" /\ IsDone(t) /\ t.err THEN <<wrapped>> ELSE <<>>

\* the setStoredError calls of one checkErrors poll, in the order of the code
ErrorsRecorded(turn, limit, q, rt, it, ot) ==
    TurnLimitErrors(turn, limit)
    \o GuardrailErrors(q)
    \o TaskErrors(rt, RunImplTaskError)
    \o TaskErrors(it, InputGuardrailsTaskError)
    \o TaskErrors(ot, OutputGuardrailsTaskError)

\* the stored error a poll leaves: every setStoredError overwrites the slot
\* variant: a poll that finds nothing clears the slot
StoredAfter_Reset(stored, recorded) ==
    IF Len(recorded) = 0 THEN NoError ELSE recorded[Len(recorded)]

\* variant: the first error recorded stays in the slot
StoredAfter_First(stored, recorded) ==
    IF stored # NoError THEN stored
    ELSE IF Len(recorded) = 0 THEN stored ELSE recorded[1]

StoredAfter(stored, recorded) ==
    IF Len(recorded) = 0 THEN stored ELSE recorded[Len(recorded)]

\* variant: the snapshot leaves the last agent out
createErrorDetails_NoAgent ==
    [kind |-> "snapshot",
     NewItems |-> newItems,
     RawResponses |-> rawResponses,
     LastAgent |-> NilAgent]

\* createErrorDetails: the snapshot of the current attributes
createErrorDetails ==
    [kind |-> "snapshot",
     NewItems |-> newItems,
     RawResponses |-> rawResponses,
     LastAgent |-> currentAgent]

\* the RunData of the error a poll leaves in the slot: the turn-limit and
\* tripwire errors get the snapshot, a task error keeps its own
RunDataAfter(data, recorded) ==
    IF Len(recorded) = 0 THEN data
    ELSE IF recorded[Len(recorded)]
              \in {MaxTurnsExceededError, InputGuardrailTripwireTriggeredError}
           THEN createErrorDetails
           ELSE TaskRunData

HasTripped(q) == \E i \in 1..Len(q) : q[i].TripwireTriggered

\* for !r.inputGuardrailQueue.IsEmpty() { ... GetNoWait() ... }: the queue
\* the loop leaves behind
\* variant: the loop stops in front of a result whose tripwire is triggered
RECURSIVE Drained_StopAtTrip(_)
Drained_StopAtTrip(q) ==
    IF IsEmpty(q) \/ Head(q).TripwireTriggered THEN q ELSE Drained_StopAtTrip(Tail(q))

RECURSIVE Drained(_)
Drained(q) == IF IsEmpty(q) THEN q ELSE Drained(Tail(q))

PollErrors ==
    ErrorsRecorded(currentTurn, maxTurns, inputGuardrailQueue,
                   runImplTask, inputGuardrailsTask, outputGuardrailsTask)

\* checkErrors: polls the three error sources, drains the guardrail queue,
\* and always returns nil
checkErrors ==
    /\ storedError' = StoredAfter(storedError, PollErrors)
    /\ storedRunData' = RunDataAfter(storedRunData, PollErrors)
    /\ inputGuardrailQueue' = Drained(inputGuardrailQueue)
    /\ bothPolled' = (bothPolled \/ (TurnLimitExceeded(currentTurn, maxTurns)
                                      /\ HasTripped(inputGuardrailQueue)))
    /\ tripDrained' = (tripDrained \/ HasTripped(inputGuardrailQueue))

\* ---------------------------------------------------------------- StreamEvents
\* a call of StreamEvents enters the loop
StreamEventsCall ==
    /\ started
    /\ sePc \in {"idle", "ret"}
    /\ sePc' = "poll"
    /\ seRet' = NoError
    /\ seVisits' = 0
    /\ seAfterCancel' = (cDone >= 1 /\ cPc = "idle")
    /\ seAfterSentinel' = sentinelConsumed
    /\ UNCHANGED sentinelConsumed
    /\ bothPolled' = FALSE
    /\ tripDrained' = FALSE
    /\ cancelSawBlocked' = FALSE
    /\ UNCHANGED <<otherVars, started, fieldVars, isComplete, queueVars, taskVars, storedError, storedRunData,
                   runVars, igCount, visited, cPc, cDone, drained, pushed, tripPushed>>

\* what the loop does once checkErrors has run: a stored error breaks the loop
AfterPoll(stored) == IF stored # NoError THEN "await" ELSE "complete"

\* err := r.checkErrors(); if r.getStoredError() != nil { r.markAsComplete(); break }
StreamPoll ==
    /\ sePc = "poll"
    /\ checkErrors
    /\ sePc' = AfterPoll(storedError')
    /\ isComplete' = (isComplete \/ AfterPoll(storedError') = "await")
    /\ UNCHANGED <<otherVars, started, fieldVars, eventQueue, taskVars, runVars, igCount, seRet, seVisits, seAfterCancel, seAfterSentinel, sentinelConsumed, visited, cancelVars, pushed,
                   tripPushed>>

\* variant: the loop goes to Get without testing the completion flag
StreamIsComplete_NoTest ==
    /\ sePc = "complete"
    /\ sePc' = "get"
    /\ UNCHANGED <<otherVars, started, fieldVars, isComplete, queueVars, taskVars, storedError,
                   storedRunData, runVars, igCount, seRet, seVisits, seAfterCancel,
                   seAfterSentinel, sentinelConsumed, visited, bothPolled, tripDrained,
                   cancelVars, pushed, tripPushed>>

\* if r.IsComplete() && ... : the load of the completion flag
StreamIsComplete ==
    /\ sePc = "complete"
    /\ sePc' = IF isComplete THEN "empty" ELSE "get"
    /\ UNCHANGED <<otherVars, started, fieldVars, isComplete, queueVars, taskVars, storedError, storedRunData,
                   runVars, igCount, seRet, seVisits, seAfterCancel, seAfterSentinel, sentinelConsumed,
                   visited, bothPolled, tripDrained, cancelVars, pushed, tripPushed>>

\* ... && r.eventQueue.IsEmpty() { break }
StreamIsEmpty ==
    /\ sePc = "empty"
    /\ sePc' = IF IsEmpty(eventQueue) THEN "await" ELSE "get"
    /\ UNCHANGED <<otherVars, started, fieldVars, isComplete, queueVars, taskVars, storedError, storedRunData,
                   runVars, igCount, seRet, seVisits, seAfterCancel, seAfterSentinel, sentinelConsumed,
                   visited, bothPolled, tripDrained, cancelVars, pushed, tripPushed>>

\* what the stored-error slot holds after the visitor returned err
\* variant: the visitor's error is written to the stored-error slot
StoredAfterVisitorError_Stores(stored, err) == err

StoredAfterVisitorError(stored, err) == stored

\* where the loop goes with the item it got: the sentinel is never visited,
\* an error of the visitor is returned at once
AfterGet(item, failed) ==
    IF item = queueCompleteSentinel THEN "sentinel"
    ELSE IF failed THEN "ret" ELSE "poll"

\* the events the visitor has been passed once the loop body ran on item
\* variant: the sentinel is handed to the visitor like any event
VisitedAfter_NoSentinelTest(seen, item) == Append(seen, item)

VisitedAfter(seen, item) ==
    IF item = queueCompleteSentinel THEN seen ELSE Append(seen, item)

\* item := r.eventQueue.Get() blocks while the queue is empty;
\* err = fn(item); if err != nil { return err }
StreamGet ==
    /\ sePc = "get"
    /\ ~IsEmpty(eventQueue)
    /\ eventQueue' = Tail(eventQueue)
    /\ visited' = VisitedAfter(visited, Head(eventQueue))
    /\ seVisits' = seVisits + (Len(visited') - Len(visited))
    /\ cancelSawBlocked' = FALSE
    /\ sentinelConsumed' = (sentinelConsumed \/ Head(eventQueue) = queueCompleteSentinel)
    /\ UNCHANGED storedRunData
    /\ \E failed \in BOOLEAN :
        /\ sePc' = AfterGet(Head(eventQueue), failed)
        /\ seRet' = IF sePc' = "ret" THEN VisitorError ELSE seRet
        /\ storedError' = IF sePc' = "ret"
                            THEN StoredAfterVisitorError(storedError, VisitorError)
                            ELSE storedError
    /\ UNCHANGED <<otherVars, started, fieldVars, isComplete, inputGuardrailQueue, taskVars,
                   runVars, igCount, seAfterCancel, seAfterSentinel, bothPolled, tripDrained, cPc, cDone,
                   drained, pushed, tripPushed>>

\* the sentinel: if err = r.checkErrors(); err != nil { return err }; break
StreamSentinel ==
    /\ sePc = "sentinel"
    /\ checkErrors
    /\ sePc' = "await"
    /\ UNCHANGED <<otherVars, started, fieldVars, isComplete, eventQueue, taskVars, runVars, igCount,
                   seRet, seVisits, seAfterCancel, seAfterSentinel, sentinelConsumed, visited, cancelVars,
                   pushed, tripPushed>>

\* r.awaitTasks(): blocks until every created task is done
StreamAwaitTasks ==
    /\ sePc = "await"
    /\ TasksConverged(runImplTask, inputGuardrailsTask, outputGuardrailsTask)
    /\ sePc' = "final"
    /\ UNCHANGED <<otherVars, started, fieldVars, isComplete, queueVars, taskVars, storedError, storedRunData,
                   runVars, igCount, seRet, seVisits, seAfterCancel, seAfterSentinel, sentinelConsumed,
                   visited, bothPolled, tripDrained, cancelVars, pushed, tripPushed>>

\* if err := r.checkErrors(); err != nil { return err }
\* r.cleanupTasks(); return r.getStoredError()
StreamFinalCheck ==
    /\ sePc = "final"
    /\ checkErrors
    /\ runImplTask' = CleanupTask(runImplTask)
    /\ inputGuardrailsTask' = CleanupTask(inputGuardrailsTask)
    /\ outputGuardrailsTask' = CleanupTask(outputGuardrailsTask)
    /\ seRet' = storedError'
    /\ sePc' = "ret"
    /\ UNCHANGED <<otherVars, started, fieldVars, isComplete, eventQueue, runVars, igCount,
                   seVisits, seAfterCancel, seAfterSentinel, sentinelConsumed, visited, cancelVars,
                   pushed, tripPushed>>

StreamEvents ==
    \/ StreamEventsCall
    \/ StreamPoll
    \/ StreamIsComplete
    \/ StreamIsEmpty
    \/ StreamGet
    \/ StreamSentinel
    \/ StreamAwaitTasks
    \/ StreamFinalCheck

\* ---------------------------------------------------------------- Cancel
\* r.markAsComplete(); r.cleanupTasks()
\* (one step: the flag a task Cancel sets is seen by the task at a later
\* suspension point of its own, so no other process can tell the two apart)
CancelCall ==
    /\ started
    /\ cPc = "idle"
    /\ isComplete' = TRUE
    /\ runImplTask' = CleanupTask(runImplTask)
    /\ inputGuardrailsTask' = CleanupTask(inputGuardrailsTask)
    /\ outputGuardrailsTask' = CleanupTask(outputGuardrailsTask)
    /\ cPc' = "await"
    /\ cancelSawBlocked' = (cancelSawBlocked \/ (sePc = "get" /\ IsEmpty(eventQueue)))
    /\ UNCHANGED <<otherVars, started, fieldVars, queueVars, storedError, storedRunData, runVars, igCount,
                   streamVars, cDone, drained, pushed, tripPushed>>

\* variant: Cancel does not wait for the tasks
CancelAwaitTasks_NoWait ==
    /\ cPc = "await"
    /\ cPc' = "drain_ev"
    /\ UNCHANGED <<otherVars, started, fieldVars, isComplete, queueVars, taskVars, storedError, storedRunData,
                   runVars, igCount, streamVars, cDone, drained, pushed,
                   tripPushed, cancelSawBlocked>>

CancelAwaitTasks ==
    /\ cPc = "await"
    /\ TasksConverged(runImplTask, inputGuardrailsTask, outputGuardrailsTask)
    /\ cPc' = "drain_ev"
    /\ UNCHANGED <<otherVars, started, fieldVars, isComplete, queueVars, taskVars, storedError, storedRunData,
                   runVars, igCount, streamVars, cDone, drained, pushed,
                   tripPushed, cancelSawBlocked>>

\* for !r.eventQueue.IsEmpty() { r.eventQueue.GetNoWait() }
\* variant: Cancel leaves the event queue as it is
CancelDrainEvents_NoDrain ==
    /\ cPc = "drain_ev"
    /\ cPc' = "drain_ig"
    /\ UNCHANGED <<otherVars, started, fieldVars, isComplete, queueVars, taskVars, storedError, storedRunData,
                   runVars, igCount, streamVars, cDone, drained, pushed,
                   tripPushed, cancelSawBlocked>>

CancelDrainEvents ==
    /\ cPc = "drain_ev"
    /\ IF IsEmpty(eventQueue)
         THEN cPc' = "drain_ig" /\ UNCHANGED <<eventQueue, drained>>
         ELSE /\ eventQueue' = Tail(eventQueue)
              /\ drained' = IF Head(eventQueue) = queueCompleteSentinel
                              THEN drained ELSE drained + 1
              /\ UNCHANGED cPc
    /\ UNCHANGED <<otherVars, started, fieldVars, isComplete, inputGuardrailQueue, taskVars,
                   storedError, storedRunData, runVars, igCount, streamVars, cDone, pushed,
                   tripPushed, cancelSawBlocked>>

\* for !r.inputGuardrailQueue.IsEmpty() { r.inputGuardrailQueue.GetNoWait() }; return
CancelDrainGuardrails ==
    /\ cPc = "drain_ig"
    /\ IF IsEmpty(inputGuardrailQueue)
         THEN cPc' = "idle" /\ cDone' = (IF cDone < 2 THEN cDone + 1 ELSE cDone) /\ UNCHANGED inputGuardrailQueue
         ELSE /\ inputGuardrailQueue' = Tail(inputGuardrailQueue)
              /\ UNCHANGED <<cPc, cDone>>
    /\ UNCHANGED <<otherVars, started, fieldVars, isComplete, eventQueue, taskVars, storedError, storedRunData,
                   runVars, igCount, streamVars, drained, pushed, tripPushed, cancelSawBlocked>>

Cancel ==
    \/ CancelCall
    \/ CancelAwaitTasks
    \/ CancelDrainEvents
    \/ CancelDrainGuardrails

RunTask ==
    \/ RunTurn
    \/ RunModel
    \/ RunModelFails
    \/ RunFinal
    \/ RunCancelled
    \/ RunSentinel
    \/ RunExit

GuardrailTasks ==
    \/ InputGuardrailResult
    \/ InputGuardrailsExit
    \/ OutputGuardrailsExit

Next ==
    \/ RunStreamed
    \/ RunTask
    \/ GuardrailTasks
    \/ StreamEvents
    \/ Cancel

Spec == Init /\ [][Next]_vars

\* the steps of a StreamEvents call that has been made
StreamEventsGoesOn ==
    \/ StreamPoll
    \/ StreamIsComplete
    \/ StreamIsEmpty
    \/ StreamGet
    \/ StreamSentinel
    \/ StreamAwaitTasks
    \/ StreamFinalCheck

\* the steps of a Cancel call that has been made
CancelGoesOn ==
    \/ CancelAwaitTasks
    \/ CancelDrainEvents
    \/ CancelDrainGuardrails

\* every goroutine that can take a step is scheduled in the end: the
\* run-execution task and the guardrail tasks come to their end, a call of
\* StreamEvents or Cancel goes on while it is not blocked. Whether and when
\* StreamEvents and Cancel are called stays open.
Fairness ==
    /\ WF_vars(RunTask)
    /\ WF_vars(InputGuardrailsExit)
    /\ WF_vars(OutputGuardrailsExit)
    /\ WF_vars(StreamEventsGoesOn)
    /\ WF_vars(CancelGoesOn)

SpecFair == Init /\ [][Next]_vars /\ Fairness

\* ---------------------------------------------------------------- run items
\* the kinds of raw item a ToolCallItem can carry (ToolCallItemType)
ToolCallItemTypes ==
    {"ResponseFunctionToolCall", "ResponseComputerToolCall",
     "ResponseOutputItemLocalShellCall", "ResponseFileSearchToolCall",
     "ResponseFunctionWebSearch", "ResponseCodeInterpreterToolCall",
     "ResponseOutputItemImageGenerationCall", "ResponseOutputItemMcpCall"}

\* the kinds of raw item a ToolCallOutputItem can carry (ToolCallOutputRawItem)
ToolCallOutputRawItems ==
    {"ResponseInputItemFunctionCallOutputParam",
     "ResponseInputItemComputerCallOutputParam",
     "ResponseInputItemLocalShellCallOutputParam"}

\* the raw item a run item of each other variant carries
RawItemOf ==
    [MessageOutputItem |-> "ResponseOutputMessage",
     HandoffCallItem |-> "ResponseFunctionToolCall",
     HandoffOutputItem |-> "TResponseInputItem",
     ReasoningItem |-> "ResponseReasoningItem",
     MCPListToolsItem |-> "ResponseOutputItemMcpListTools",
     MCPApprovalRequestItem |-> "ResponseOutputItemMcpApprovalRequest",
     MCPApprovalResponseItem |-> "ResponseInputItemMcpApprovalResponseParam"]

RunItem(type, raw) == [Type |-> type, RawItem |-> raw]

\* every RunItem variant, with every kind of raw item it can carry
RunItems ==
    {RunItem(t, RawItemOf[t]) : t \in DOMAIN RawItemOf}
    \cup {RunItem("ToolCallItem", k) : k \in ToolCallItemTypes}
    \cup {RunItem("ToolCallOutputItem", k) : k \in ToolCallOutputRawItems}

\* a panic of the conversion
Panic(what) == [kind |-> "panic", value |-> what]

IsPanic(x) == x.kind = "panic"

\* openaitypes.ResponseInputItemUnionParamFrom...: the input item union with
\* the member for this raw item set
ResponseInputItemUnionParamFrom(raw) == [kind |-> "input_item", of |-> raw]

TResponseInputItemFromToolCallItemType(raw) ==
    CASE raw = "ResponseFunctionToolCall" -> ResponseInputItemUnionParamFrom(raw)
      [] raw = "ResponseComputerToolCall" -> ResponseInputItemUnionParamFrom(raw)
      [] raw = "ResponseOutputItemLocalShellCall" -> ResponseInputItemUnionParamFrom(raw)
      [] OTHER -> Panic(raw)

ToolCallOutputItemToInputItem(raw) ==
    CASE raw = "ResponseInputItemFunctionCallOutputParam" ->
            ResponseInputItemUnionParamFrom(raw)
      [] raw = "ResponseInputItemComputerCallOutputParam" ->
            ResponseInputItemUnionParamFrom(raw)
      [] raw = "ResponseInputItemLocalShellCallOutputParam" ->
            ResponseInputItemUnionParamFrom(raw)
      [] OTHER -> Panic(raw)

\* RunItem.ToInputItem, by variant
ToInputItem(item) ==
    CASE item.Type = "ToolCallItem" -> TResponseInputItemFromToolCallItemType(item.RawItem)
      [] item.Type = "ToolCallOutputItem" -> ToolCallOutputItemToInputItem(item.RawItem)
      [] item.Type = "HandoffOutputItem" -> [kind |-> "input_item", of |-> item.RawItem]
      [] OTHER -> ResponseInputItemUnionParamFrom(item.RawItem)

\* ItemHelpers().InputToNewInputList: a string becomes one user message, a
\* list is copied
InputToNewInputList(in) ==
    IF in.kind = "string"
      THEN <<[kind |-> "input_item", of |-> "EasyInputMessage", role |-> "user",
              content |-> in.value]>>
      ELSE in.value

\* variant: the new items come before the original input
toInputList_ItemsFirst(in, newRunItems) ==
    LET result == [i \in 1..Len(newRunItems) |-> ToInputItem(newRunItems[i])]
    IN IF \E i \in 1..Len(result) : IsPanic(result[i])
         THEN Panic("toInputList")
         ELSE [kind |-> "list", value |-> result \o InputToNewInputList(in)]

\* toInputList: a panic of a conversion ends the call; otherwise the
\* normalised input followed by the converted new items
toInputList(in, newRunItems) ==
    LET result == [i \in 1..Len(newRunItems) |-> ToInputItem(newRunItems[i])]
    IN IF \E i \in 1..Len(result) : IsPanic(result[i])
         THEN Panic("toInputList")
         ELSE [kind |-> "list", value |-> InputToNewInputList(in) \o result]

\* the inputs a run can be given
UserMessage(n) == [kind |-> "input_item", of |-> "EasyInputMessage", role |-> "user", content |-> n]

Inputs ==
    {InputString("hello"), InputItems(<<>>), InputItems(<<UserMessage("a")>>),
     InputItems(<<UserMessage("a"), UserMessage("b")>>)}

\* a result with its input set
ItemsInit ==
    /\ newRunResultStreaming
    /\ input \in Inputs
    /\ NoCalls
    /\ NewRunnerService

\* the run appends a new item; calls made before it are forgotten
AppendNewItem ==
    /\ Len(newItems) < MaxNewItems
    /\ \E item \in RunItems : newItems' = Append(newItems, item)
    /\ listResults' = <<>>
    /\ converted' = NoResult
    /\ UNCHANGED <<input, streamingRest, serviceVars, rawResponses, respVars>>

\* ToInputItem() of the item appended last
CallToInputItem ==
    /\ Len(newItems) >= 1
    /\ converted' = ToInputItem(newItems[Len(newItems)])
    /\ UNCHANGED <<input, newItems, listResults, streamingRest, serviceVars, rawResponses, respVars>>

\* ToInputList(): the results of the calls on the same input and new items
\* are kept, the latest last
CallToInputList ==
    /\ Len(listResults) < 2
    /\ listResults' = Append(listResults, toInputList(input, newItems))
    /\ UNCHANGED <<input, newItems, converted, streamingRest, serviceVars, rawResponses, respVars>>

ItemsNext ==
    \/ AppendNewItem
    \/ CallToInputItem
    \/ CallToInputList

SpecItems == ItemsInit /\ [][ItemsNext]_vars

\* ---------------------------------------------------------------- LastResponseID
ModelResponse(id) == [ResponseID |-> id]

\* response ids, the empty one among them
ResponseIDValues == {"", "resp_a", "resp_b"}

\* appendRawResponses(v...): any number of responses in one call
appendRawResponses ==
    /\ \E n \in 0..MaxAppend :
        \E v \in [1..n -> {ModelResponse(id) : id \in ResponseIDValues}] :
            /\ Len(rawResponses) + n <= MaxRawResponses
            /\ rawResponses' = rawResponses \o v
            /\ lastAppended' = IF n = 0 THEN lastAppended ELSE v[n]
    /\ lastIDResult' = NoResult
    /\ UNCHANGED <<streamingRest, serviceVars, newItems, itemVars>>

\* LastResponseID()
CallLastResponseID ==
    /\ lastIDResult' = [kind |-> "id", value |-> lastResponseID(rawResponses)]
    /\ UNCHANGED <<lastAppended, rawResponses, streamingRest, serviceVars, newItems, itemVars>>

ResponsesNext ==
    \/ appendRawResponses
    \/ CallLastResponseID

SpecResponses == Init /\ [][ResponsesNext]_vars

\* ---------------------------------------------------------------- runner service
\* the requests: session id, resume token and workflow name are what Resume
\* and the tracker look at
ResumeTokens == {<<>>, <<" ">>, <<"t">>, <<" ", "t">>, <<"u">>}

WorkflowNames == {<<>>, <<"w">>, <<"v">>}

Requests ==
    [SessionID : SessionKeys, ResumeToken : ResumeTokens, WorkflowName : WorkflowNames]

\* the states a store can hold for session "s" when the service starts
StoredStates ==
    {WorkflowExecutionState(t, st, w) :
        t \in {<<"t">>, <<"t", " ">>}, st \in ExecutionStatuses, w \in {<<>>, <<"w">>}}

ServiceInit ==
    /\ newRunResultStreaming
    /\ input = InputItems(<<>>)
    /\ NoCalls
    /\ \E st \in StoredStates \cup {NoState} :
        stateStore = [k \in SessionKeys |-> IF k = <<"s">> THEN st ELSE NoState]
    /\ ServiceIdle

\* tracing.GenTraceID
RunID == <<"r">>

\* generateRunIdentifiers: the resume token of a run
generateRunIdentifiers(sessionID) ==
    IF TrimSpace(sessionID) # <<>> THEN sessionID \o <<":">> \o RunID ELSE RunID

\* the tracker saves the state of the request's session
TrackerSave(status) ==
    stateStore' = [stateStore EXCEPT ![req.SessionID] =
        WorkflowExecutionState(generateRunIdentifiers(req.SessionID), status,
                               req.WorkflowName)]

\* publisher.Publish unless skipPublishing
Publish(events) ==
    published' = IF skipPublishing THEN published ELSE published \o events

\* Execute up to the creation of the task: the builder, the conversion of
\* the inputs or a callback factory can fail, and then no task is created
ExecuteBody(r, early, hasStdout, hasNonStdout) ==
    /\ req' = [SessionID |-> r.SessionID, WorkflowName |-> r.WorkflowName]
    /\ skipPublishing' = (hasStdout /\ ~hasNonStdout)
    /\ published' = <<>>
    /\ failedNotified' = 0
    /\ completedNotified' = 0
    /\ summaryError' = NoError
    /\ traceErr' = NoError
    /\ streamLeft' = 0
    /\ streamEndErr' = FALSE
    /\ IF early # "none"
         THEN svcPc' = "idle" /\ taskResult' = [kind |-> "execute_error", err |-> early]
         ELSE svcPc' = "trace" /\ taskResult' = NoResult
    /\ UNCHANGED stateStore

\* the ways Execute can end before the task: ValidateWorkflowRequest rejects
\* an empty session id
EarlyErrors(r) ==
    IF r.SessionID = <<>> THEN {"build"} ELSE {"none", "build", "inputs", "publisher"}

\* the service takes one call, on whatever the store holds
NoCallYet == svcPc = "idle" /\ taskResult = NoResult /\ resumeResult = NoResult

Execute ==
    /\ NoCallYet
    /\ \E r \in Requests, hasStdout \in BOOLEAN, hasNonStdout \in BOOLEAN :
        \E early \in EarlyErrors(r) :
            ExecuteBody(r, early, hasStdout, hasNonStdout)
    /\ resumeResult' = NoResult
    /\ UNCHANGED <<streamingRest, newItems, rawResponses, itemVars, respVars>>

\* tracing.RunTrace starts the trace; it can fail before the function runs
TraceStart ==
    /\ svcPc = "trace"
    /\ \E fails \in BOOLEAN :
        IF fails THEN svcPc' = "after_trace" /\ traceErr' = "trace_error"
                 ELSE svcPc' = "on_started" /\ UNCHANGED traceErr
    /\ UNCHANGED <<streamingRest, newItems, rawResponses, itemVars, respVars,
                   stateStore, req, skipPublishing, published, failedNotified,
                   completedNotified, summaryError, taskResult, streamLeft,
                   streamEndErr, resumeResult>>

\* tracker.OnRunStarted, then run.started
OnRunStarted ==
    /\ svcPc = "on_started"
    /\ \E fails \in BOOLEAN :
        IF fails
          THEN /\ svcPc' = "after_trace"
               /\ traceErr' = "tracker_error"
               /\ UNCHANGED <<stateStore, published>>
          ELSE /\ svcPc' = "start_run"
               /\ TrackerSave(ExecutionStatusRunning)
               /\ Publish(<<"run.started">>)
               /\ UNCHANGED traceErr
    /\ UNCHANGED <<streamingRest, newItems, rawResponses, itemVars, respVars,
                   req, skipPublishing, failedNotified, completedNotified,
                   summaryError, taskResult, streamLeft, streamEndErr, resumeResult>>

\* the failure path of the function: summary.Error, run.failed (after the
\* events already handed over), tracker.OnRunFailed, return the error
RunFailed(err, before) ==
    /\ summaryError' = err
    /\ Publish(before \o <<"run.failed">>)
    /\ failedNotified' = failedNotified + 1
    /\ TrackerSave(ExecutionStatusFailed)
    /\ traceErr' = err
    /\ svcPc' = "after_trace"

\* Runner.RunStreamed / RunInputsStreamed: an error, or a stream of events
StartRun ==
    /\ svcPc = "start_run"
    /\ \/ /\ RunFailed("run_error", <<>>)
          /\ UNCHANGED <<streamLeft, streamEndErr>>
       \/ /\ \E n \in 0..MaxStreamEvents, endErr \in BOOLEAN :
                streamLeft' = n /\ streamEndErr' = endErr
          /\ svcPc' = "stream"
          /\ UNCHANGED <<stateStore, published, failedNotified, summaryError, traceErr>>
    /\ UNCHANGED <<streamingRest, newItems, rawResponses, itemVars, respVars,
                   req, skipPublishing, completedNotified, taskResult, resumeResult>>

\* the visitor on one stream event: tracker.OnStreamEvent, then run.event;
\* an error of either ends StreamEvents with that error
StreamVisit ==
    /\ svcPc = "stream"
    /\ streamLeft > 0
    /\ \/ /\ RunFailed("visitor_tracker", <<>>)
          /\ UNCHANGED streamLeft
       \/ /\ ~skipPublishing
          /\ RunFailed("visitor_publisher", <<"run.event">>)
          /\ UNCHANGED streamLeft
       \/ /\ Publish(<<"run.event">>)
          /\ streamLeft' = streamLeft - 1
          /\ UNCHANGED <<stateStore, svcPc, failedNotified, summaryError, traceErr>>
    /\ UNCHANGED <<streamingRest, newItems, rawResponses, itemVars, respVars,
                   req, skipPublishing, completedNotified, taskResult, streamEndErr,
                   resumeResult>>

\* StreamEvents returns: its error takes the failure path, nil takes
\* run.completed and tracker.OnRunCompleted
StreamReturn ==
    /\ svcPc = "stream"
    /\ streamLeft = 0
    /\ IF streamEndErr
         THEN RunFailed("stream_error", <<>>) /\ UNCHANGED completedNotified
         ELSE /\ Publish(<<"run.completed">>)
              /\ completedNotified' = completedNotified + 1
              /\ TrackerSave(ExecutionStatusIdle)
              /\ svcPc' = "after_trace"
              /\ UNCHANGED <<failedNotified, summaryError, traceErr>>
    /\ UNCHANGED <<streamingRest, newItems, rawResponses, itemVars, respVars,
                   req, skipPublishing, taskResult, streamLeft, streamEndErr,
                   resumeResult>>

\* variant: the trace error is reported whether or not the summary has one
TraceFailureUnreported_Always(trErr, sumErr) == trErr # NoError

\* if traceErr != nil && summary.Error == nil
TraceFailureUnreported(trErr, sumErr) == trErr # NoError /\ sumErr = NoError

\* RunTrace returns (the finish of the trace can fail too); the task ends
\* with summary, summary.Error
TraceReturn ==
    /\ svcPc = "after_trace"
    /\ \E finishFails \in BOOLEAN :
        LET trErr == IF traceErr # NoError THEN traceErr
                     ELSE IF finishFails THEN "trace_error" ELSE NoError
        IN IF TraceFailureUnreported(trErr, summaryError)
             THEN /\ summaryError' = trErr
                  /\ failedNotified' = failedNotified + 1
                  /\ TrackerSave(ExecutionStatusFailed)
                  /\ traceErr' = trErr
             ELSE /\ traceErr' = trErr
                  /\ UNCHANGED <<summaryError, failedNotified, stateStore>>
    /\ taskResult' = [kind |-> "summary", err |-> summaryError']
    /\ svcPc' = "idle"
    /\ UNCHANGED <<streamingRest, newItems, rawResponses, itemVars, respVars,
                   req, skipPublishing, published, completedNotified, streamLeft,
                   streamEndErr, resumeResult>>

\* variant: any status can be resumed
ResumeCheck_AnyStatus(r, store, loadFails) ==
    LET sessionID == TrimSpace(r.SessionID)
        resumeToken == TrimSpace(r.ResumeToken)
        state == store[sessionID]
    IN IF sessionID = <<>> THEN "session_id_required"
       ELSE IF resumeToken = <<>> THEN "resume_token_required"
       ELSE IF loadFails THEN "load_error"
       ELSE IF state = NoState THEN "no_state"
       ELSE IF TrimSpace(state.ResumeToken) # resumeToken THEN "token_mismatch"
       ELSE IF state.WorkflowName # <<>> /\ r.WorkflowName # <<>>
               /\ state.WorkflowName # r.WorkflowName THEN "workflow_mismatch"
       ELSE NoError

\* the checks of Resume, in the order of the code: the error, or nil
ResumeCheck(r, store, loadFails) ==
    LET sessionID == TrimSpace(r.SessionID)
        resumeToken == TrimSpace(r.ResumeToken)
        state == store[sessionID]
    IN IF sessionID = <<>> THEN "session_id_required"
       ELSE IF resumeToken = <<>> THEN "resume_token_required"
       ELSE IF loadFails THEN "load_error"
       ELSE IF state = NoState THEN "no_state"
       ELSE IF TrimSpace(state.ResumeToken) # resumeToken THEN "token_mismatch"
       ELSE IF state.Status \notin {ExecutionStatusWaitingApproval, ExecutionStatusFailed}
              THEN "status_not_resumable"
       ELSE IF state.WorkflowName # <<>> /\ r.WorkflowName # <<>>
               /\ state.WorkflowName # r.WorkflowName THEN "workflow_mismatch"
       ELSE NoError

\* what a Resume call came to: the request, the store it found, and whether
\* the execution was started
ResumeOutcome(kind, err, r) ==
    [kind |-> kind, err |-> err, req |-> r, store |-> stateStore]

\* Resume: the checks, then Execute
Resume ==
    /\ NoCallYet
    /\ \E r \in Requests, loadFails \in BOOLEAN :
        IF ResumeCheck(r, stateStore, loadFails) # NoError
          THEN /\ resumeResult' =
                    ResumeOutcome("error", ResumeCheck(r, stateStore, loadFails), r)
               /\ UNCHANGED <<stateStore, svcPc, req, skipPublishing, published,
                              failedNotified, completedNotified, summaryError,
                              traceErr, taskResult, streamLeft, streamEndErr>>
          ELSE \E early \in EarlyErrors(r), hasStdout \in BOOLEAN, hasNonStdout \in BOOLEAN :
                /\ ExecuteBody(r, early, hasStdout, hasNonStdout)
                /\ resumeResult' =
                      ResumeOutcome(IF early = "none" THEN "started" ELSE "error",
                                    IF early = "none" THEN NoError ELSE early, r)
    /\ UNCHANGED <<streamingRest, newItems, rawResponses, itemVars, respVars>>

ServiceNext ==
    \/ Execute
    \/ Resume
    \/ TraceStart
    \/ OnRunStarted
    \/ StartRun
    \/ StreamVisit
    \/ StreamReturn
    \/ TraceReturn

SpecService == ServiceInit /\ [][ServiceNext]_vars

\* ---------------------------------------------------------------- ResolveApproval
\* every variable of the streamed result
resultVars == <<started, fieldVars, isComplete, queueVars, taskVars, storedError,
                storedRunData, runVars, igCount, streamVars, cancelVars, pushed,
                tripPushed>>
\* the variables of Execute and Resume, the store apart
executeVars == <<svcPc, req, skipPublishing, published, failedNotified, completedNotified,
                 summaryError, traceErr, taskResult, streamLeft, streamEndErr,
                 resumeResult>>

MaxPending == 3

\* a pending approval request: its id and what it asks for
ApprovalRequestState(id, tool) == [RequestID |-> id, ToolName |-> tool]

ApprovalRequests ==
    {ApprovalRequestState("a", "t1"), ApprovalRequestState("a", "t2"),
     ApprovalRequestState("b", "t1")}

\* the approval ids a caller passes: "c" is pending nowhere
ApprovalIDs == {"a", "b", "c"}

PendingLists ==
    UNION {[1..n -> ApprovalRequests] : n \in 0..MaxPending}

\* a stored execution state with its pending approvals
ApprovalState(session, status, pending) ==
    [kind |-> "state", SessionID |-> session, Status |-> status,
     PendingApprovals |-> pending]

\* the store at the start: the session "s" has a state or none
ApprovalsInit ==
    /\ newRunResultStreaming
    /\ input = InputItems(<<>>)
    /\ NoCalls
    /\ ServiceIdle
    /\ \E st \in ExecutionStatuses, pending \in PendingLists, present \in BOOLEAN :
        stateStore = [k \in SessionKeys |->
                        IF k = <<"s">> /\ present
                          THEN ApprovalState(k, st, pending) ELSE NoState]

\* the filter loop: the approvals that stay pending
\* variant: the loop stops filtering after the first removal
RECURSIVE FilterApprovals_FirstOnly(_, _)
FilterApprovals_FirstOnly(pending, approvalID) ==
    IF pending = <<>> THEN <<>>
    ELSE IF Head(pending).RequestID = approvalID
           THEN Tail(pending)
           ELSE <<Head(pending)>> \o FilterApprovals_FirstOnly(Tail(pending), approvalID)

RECURSIVE FilterApprovals(_, _)
FilterApprovals(pending, approvalID) ==
    IF pending = <<>> THEN <<>>
    ELSE IF Head(pending).RequestID = approvalID
           THEN FilterApprovals(Tail(pending), approvalID)
           ELSE <<Head(pending)>> \o FilterApprovals(Tail(pending), approvalID)

\* removed: some pending approval has the id
Removed(pending, approvalID) ==
    \E i \in 1..Len(pending) : pending[i].RequestID = approvalID

\* the status after the removal
\* variant: the status follows approve whenever an approval was removed
StatusAfterResolve_Always(status, left, approve) ==
    IF approve THEN ExecutionStatusIdle ELSE ExecutionStatusFailed

StatusAfterResolve(status, left, approve) ==
    IF Len(left) = 0 /\ status = ExecutionStatusWaitingApproval
      THEN (IF approve THEN ExecutionStatusIdle ELSE ExecutionStatusFailed)
      ELSE status

\* what ResolveApproval returns before it saves: the error, or "nil"
ResolveError(loadFails, state, approvalID) ==
    IF loadFails THEN "load_error"
    ELSE IF state = NoState THEN "no_state"
    ELSE IF Len(state.PendingApprovals) = 0 THEN "no_pending"
    ELSE IF ~Removed(state.PendingApprovals, approvalID) THEN "not_found"
    ELSE NoError

\* the state ResolveApproval hands to store.Save
Resolved(state, approvalID, approve) ==
    LET left == FilterApprovals(state.PendingApprovals, approvalID)
    IN [state EXCEPT !.PendingApprovals = left,
                     !.Status = StatusAfterResolve(state.Status, left, approve)]

\* ResolveApproval(ctx, sessionID, approvalID, approve): one call
ResolveApproval ==
    /\ \E sessionID \in SessionKeys, approvalID \in ApprovalIDs, approve \in BOOLEAN,
          loadFails \in BOOLEAN, saveFails \in BOOLEAN :
        LET state == stateStore[sessionID]
            err == ResolveError(loadFails, state, approvalID)
        IN /\ stateStore' =
                 IF err = NoError /\ ~saveFails
                   THEN [stateStore EXCEPT
                            ![state.SessionID] = Resolved(state, approvalID, approve)]
                   ELSE stateStore
           /\ resolveResult' =
                 [kind |-> "resolved",
                  err |-> IF err # NoError THEN err
                          ELSE IF saveFails THEN "save_error" ELSE NoError,
                  sessionID |-> sessionID, approvalID |-> approvalID,
                  approve |-> approve, store |-> stateStore]
    /\ UNCHANGED <<resultVars, itemVars, respVars, executeVars, call, accessorVars, pollVars>>

ApprovalsNext == ResolveApproval

SpecApprovals == ApprovalsInit /\ [][ApprovalsNext]_vars

\* ---------------------------------------------------------------- ResolveApproval, then Resume
\* a stored execution state with everything ResolveApproval and Resume read
WaitingState(session, token, status, workflow, pending) ==
    [kind |-> "state", SessionID |-> session, ResumeToken |-> token, Status |-> status,
     WorkflowName |-> workflow, PendingApprovals |-> pending]

\* the store at the start: the session "s" has a state or none
ResolveResumeInit ==
    /\ newRunResultStreaming
    /\ input = InputItems(<<>>)
    /\ NoCalls
    /\ ServiceIdle
    /\ \E st \in ExecutionStatuses, pending \in PendingLists, present \in BOOLEAN :
        stateStore = [k \in SessionKeys |->
                        IF k = <<"s">> /\ present
                          THEN WaitingState(k, <<"t">>, st, <<"w">>, pending) ELSE NoState]

\* approvals of the session "s" are resolved until Resume is called
ResolveBeforeResume ==
    /\ NoCallYet
    /\ ResolveApproval
    /\ resolveResult'.sessionID = <<"s">>

\* Resume called for the workflow the state was stored for
ResumeStoredWorkflow ==
    /\ Resume
    /\ resumeResult'.req.WorkflowName = <<"w">>

ResolveResumeNext ==
    \/ ResolveBeforeResume
    \/ ResumeStoredWorkflow

SpecResolveResume == ResolveResumeInit /\ [][ResolveResumeNext]_vars

\* ---------------------------------------------------------------- ValidateWorkflowRequest
MaxInputs == 1
MaxCallbacks == 2

\* strings.ToLower, on the letters the requests use
LowerChar(ch) ==
    CASE ch = "S" -> "s"
      [] ch = "T" -> "t"
      [] ch = "E" -> "e"
      [] ch = "X" -> "x"
      [] ch = "M" -> "m"
      [] ch = "I" -> "i"
      [] ch = "U" -> "u"
      [] OTHER -> ch

ToLower(str) == [i \in 1..Len(str) |-> LowerChar(str[i])]

CurrentWorkflowVersion == <<"v", "1">>

\* an error of the validation: the check that failed, the index it names
\* (callbacks[i], inputs[i]) and the error it wraps
ValidationError(check, index, cause) == [check |-> check, index |-> index, cause |-> cause]

NoValidationError == ValidationError("nil", 0, "nil")

\* url.ParseRequestURI: a request URI is an absolute path or has a scheme
ParseRequestURIFails(target) ==
    ~(/\ target # <<>>
      /\ \/ Head(target) = "/"
         \/ \E i \in 2..Len(target) :
               /\ target[i] = ":"
               /\ \A j \in 1..(i - 1) : target[j] \notin {"/", " ", ":"})

StdoutMode == <<"s", "t", "d", "o", "u", "t">>
StdoutVerboseMode == StdoutMode \o <<"_", "v", "e", "r", "b", "o", "s", "e">>

\* CallbackDeclaration.Validate
CallbackValidate(cb) ==
    IF ToLower(cb.Mode) \in {StdoutMode, StdoutVerboseMode} THEN "nil"
    ELSE IF TrimSpace(cb.Target) = <<>> THEN "callback target is required"
    ELSE IF ParseRequestURIFails(cb.Target) THEN "not a valid URL"
    ELSE "nil"

isCallbackEmpty(cb) ==
    /\ TrimSpace(cb.Target) = <<>>
    /\ TrimSpace(cb.Mode) = <<>>
    /\ cb.Headers = 0
    /\ ~cb.Retry

SupportedInputTypes ==
    {<<"t", "e", "x", "t">>, <<"m", "e", "s", "s", "a", "g", "e">>, <<"j", "s", "o", "n">>,
     <<"i", "m", "a", "g", "e">>, <<"a", "u", "d", "i", "o">>, <<"v", "i", "d", "e", "o">>}

\* the check of one input
validateInput(in) ==
    IF TrimSpace(in.Type) = <<>> THEN "missing type"
    ELSE IF ToLower(in.Type) \notin SupportedInputTypes THEN "type not supported"
    ELSE IF TrimSpace(in.URI) = <<>> /\ ~in.HasContent
           THEN "must provide either uri or content"
    ELSE "nil"

\* validateInputs: the error of the first input that fails, with its index
RECURSIVE validateInputsFrom(_, _)
validateInputsFrom(inputs, i) ==
    IF i > Len(inputs) THEN NoValidationError
    ELSE IF validateInput(inputs[i]) # "nil"
           THEN ValidationError("inputs", i - 1, validateInput(inputs[i]))
           ELSE validateInputsFrom(inputs, i + 1)

validateInputs(inputs) == validateInputsFrom(inputs, 1)

SupportedStores == {<<"s", "q", "l", "i", "t", "e">>, <<"p", "o", "s", "t", "g", "r", "e", "s">>}

validateSession(session) ==
    IF session.SessionID = <<>> THEN "session_id is required"
    ELSE IF session.UserID = <<>> THEN "credentials.user_id is required"
    ELSE IF session.AccountID = <<>> THEN "credentials.account_id is required"
    ELSE IF session.HistorySize < 0 THEN "history_size cannot be negative"
    ELSE IF session.MaxTurns < 0 THEN "max_turns cannot be negative"
    ELSE IF /\ TrimSpace(session.PersistentStore) # <<>>
            /\ ToLower(TrimSpace(session.PersistentStore)) \notin SupportedStores
           THEN "persistent_store not supported"
    ELSE "nil"

\* seen, once the first loop is through: the names of the declared agents
SeenAgents(agents) == {agents[i].Name : i \in 1..Len(agents)}

\* for _, h := range agent.Handoffs: the error of the first handoff that fails
RECURSIVE validateHandoffsFrom(_, _, _)
validateHandoffsFrom(handoffs, i, seen) ==
    IF i > Len(handoffs) THEN "nil"
    ELSE IF TrimSpace(handoffs[i].Agent) = <<>> THEN "handoff missing agent"
    ELSE IF handoffs[i].Agent \notin seen THEN "handoff not found"
    ELSE validateHandoffsFrom(handoffs, i + 1, seen)

\* for _, tool := range agent.AgentTools
\* variant: the agent tools are not looked at
validateAgentToolsFrom_Unchecked(tools, i, seen) == "nil"

RECURSIVE validateAgentToolsFrom(_, _, _)
validateAgentToolsFrom(tools, i, seen) ==
    IF i > Len(tools) THEN "nil"
    ELSE IF tools[i].AgentName \notin seen THEN "agent_tool references unknown agent"
    ELSE validateAgentToolsFrom(tools, i + 1, seen)

\* the second loop over the agents: handoffs, then agent tools, agent by agent
RECURSIVE validateReferencesFrom(_, _, _)
validateReferencesFrom(agents, i, seen) ==
    IF i > Len(agents) THEN "nil"
    ELSE IF validateHandoffsFrom(agents[i].Handoffs, 1, seen) # "nil"
           THEN validateHandoffsFrom(agents[i].Handoffs, 1, seen)
    ELSE IF validateAgentToolsFrom(agents[i].AgentTools, 1, seen) # "nil"
           THEN validateAgentToolsFrom(agents[i].AgentTools, 1, seen)
    ELSE validateReferencesFrom(agents, i + 1, seen)

\* validateWorkflowDeclaration, for agents without tools, hooks, guardrails,
\* models or MCP servers (validateAgentDeclaration has nothing to refuse)
validateWorkflowDeclaration(workflow) ==
    IF workflow.Name = <<>> THEN "name is required"
    ELSE IF workflow.StartingAgent = <<>> THEN "starting_agent is required"
    ELSE IF Len(workflow.Agents) = 0 THEN "agents cannot be empty"
    ELSE IF \E i \in 1..Len(workflow.Agents) :
               /\ \A j \in 1..(i - 1) :
                     /\ workflow.Agents[j].Name # <<>>
                     /\ \A k \in 1..(j - 1) :
                           workflow.Agents[k].Name # workflow.Agents[j].Name
               /\ workflow.Agents[i].Name = <<>>
           THEN "agents[i] missing name"
    ELSE IF \E i, j \in 1..Len(workflow.Agents) :
               i < j /\ workflow.Agents[i].Name = workflow.Agents[j].Name
           THEN "duplicate agent name"
    ELSE IF workflow.StartingAgent \notin SeenAgents(workflow.Agents)
           THEN "starting_agent not found in agents"
    ELSE validateReferencesFrom(workflow.Agents, 1, SeenAgents(workflow.Agents))

\* the loop over req.Callbacks: the error of the first one that fails
RECURSIVE validateCallbacksFrom(_, _)
validateCallbacksFrom(callbacks, i) ==
    IF i > Len(callbacks) THEN NoValidationError
    ELSE IF CallbackValidate(callbacks[i]) # "nil"
           THEN ValidationError("callbacks", i - 1, CallbackValidate(callbacks[i]))
           ELSE validateCallbacksFrom(callbacks, i + 1)

\* callbackCount once both callback checks have passed
callbackCount(request) ==
    (IF isCallbackEmpty(request.Callback) THEN 0 ELSE 1) + Len(request.Callbacks)

\* variant: the session is checked before the inputs
ValidateWorkflowRequest_SessionFirst(request) ==
    IF TrimSpace(request.Version) # <<>> /\ TrimSpace(request.Version) # CurrentWorkflowVersion
      THEN ValidationError("version", 0, "not supported")
    ELSE IF TrimSpace(request.Query) = <<>>
      THEN ValidationError("query", 0, "query is required")
    ELSE IF validateSession(request.Session) # "nil"
      THEN ValidationError("session", 0, validateSession(request.Session))
    ELSE IF validateInputs(request.Inputs) # NoValidationError
      THEN validateInputs(request.Inputs)
    ELSE IF ~isCallbackEmpty(request.Callback) /\ CallbackValidate(request.Callback) # "nil"
      THEN ValidationError("callback", 0, CallbackValidate(request.Callback))
    ELSE IF validateCallbacksFrom(request.Callbacks, 1) # NoValidationError
      THEN validateCallbacksFrom(request.Callbacks, 1)
    ELSE IF callbackCount(request) = 0
      THEN ValidationError("callbacks", 0, "at least one callback is required")
    ELSE IF validateWorkflowDeclaration(request.Workflow) # "nil"
      THEN ValidationError("workflow", 0, validateWorkflowDeclaration(request.Workflow))
    ELSE NoValidationError

ValidateWorkflowRequest(request) ==
    IF TrimSpace(request.Version) # <<>> /\ TrimSpace(request.Version) # CurrentWorkflowVersion
      THEN ValidationError("version", 0, "not supported")
    ELSE IF TrimSpace(request.Query) = <<>>
      THEN ValidationError("query", 0, "query is required")
    ELSE IF validateInputs(request.Inputs) # NoValidationError
      THEN validateInputs(request.Inputs)
    ELSE IF validateSession(request.Session) # "nil"
      THEN ValidationError("session", 0, validateSession(request.Session))
    ELSE IF ~isCallbackEmpty(request.Callback) /\ CallbackValidate(request.Callback) # "nil"
      THEN ValidationError("callback", 0, CallbackValidate(request.Callback))
    ELSE IF validateCallbacksFrom(request.Callbacks, 1) # NoValidationError
      THEN validateCallbacksFrom(request.Callbacks, 1)
    ELSE IF callbackCount(request) = 0
      THEN ValidationError("callbacks", 0, "at least one callback is required")
    ELSE IF validateWorkflowDeclaration(request.Workflow) # "nil"
      THEN ValidationError("workflow", 0, validateWorkflowDeclaration(request.Workflow))
    ELSE NoValidationError

\* the requests validated
WorkflowInput(type, uri, hasContent) == [Type |-> type, URI |-> uri, HasContent |-> hasContent]

WorkflowInputs ==
    {WorkflowInput(<<"T", "e", "x", "t">>, <<>>, TRUE),
     WorkflowInput(<<" ">>, <<"u">>, TRUE),
     WorkflowInput(<<"x">>, <<"u">>, FALSE),
     WorkflowInput(<<"i", "m", "a", "g", "e">>, <<" ">>, FALSE)}

SessionDeclaration(id, user, account, history, turns, store) ==
    [SessionID |-> id, UserID |-> user, AccountID |-> account, HistorySize |-> history,
     MaxTurns |-> turns, PersistentStore |-> store]

SessionDeclarations ==
    {SessionDeclaration(<<"s">>, <<"u">>, <<"a">>, 0, 0, <<>>),
     SessionDeclaration(<<>>, <<>>, <<"a">>, 0, 0, <<>>),
     SessionDeclaration(<<"s">>, <<"u">>, <<"a">>, 0, -1, <<>>),
     SessionDeclaration(<<"s">>, <<"u">>, <<"a">>, 1, 1, <<" ", "S", "q", "l", "i", "t", "e">>),
     SessionDeclaration(<<"s">>, <<"u">>, <<"a">>, 0, 0, <<"x">>)}

CallbackDeclaration(target, mode, headers, retry) ==
    [Target |-> target, Mode |-> mode, Headers |-> headers, Retry |-> retry]

EmptyCallback == CallbackDeclaration(<<" ">>, <<>>, 0, FALSE)

CallbackDeclarations ==
    {CallbackDeclaration(<<>>, <<"S", "t", "d", "o", "u", "t">>, 0, FALSE),
     CallbackDeclaration(<<"h", ":", "/", "/", "x">>, <<>>, 0, FALSE),
     CallbackDeclaration(<<>>, <<>>, 1, FALSE),
     CallbackDeclaration(<<"x">>, <<"h">>, 0, TRUE)}

\* the additional callbacks: one that passes, one whose target is no URL
AdditionalCallbacks ==
    {CallbackDeclaration(<<"h", ":", "/", "/", "x">>, <<>>, 0, FALSE),
     CallbackDeclaration(<<"x">>, <<"h">>, 0, TRUE)}

WorkflowDeclaration(name, start, agents) ==
    [Name |-> name, StartingAgent |-> start, Agents |-> agents]

\* an agent: its name, the agents it hands off to, the agents it uses as tools
AgentHandoffDeclaration(agent) == [Agent |-> agent]

AgentToolReference(agentName) == [AgentName |-> agentName]

AgentDeclaration(name, handoffs, agentTools) ==
    [Name |-> name, Handoffs |-> handoffs, AgentTools |-> agentTools]

\* an agent that refers to no other
PlainAgent(name) == AgentDeclaration(name, <<>>, <<>>)

WorkflowDeclarations ==
    {WorkflowDeclaration(<<"w">>, <<"a">>, <<PlainAgent(<<"b">>), PlainAgent(<<"a">>)>>),
     WorkflowDeclaration(<<>>, <<"a">>, <<PlainAgent(<<"a">>)>>),
     WorkflowDeclaration(<<"w">>, <<"a">>, <<PlainAgent(<<"b">>), PlainAgent(<<"b">>)>>),
     WorkflowDeclaration(<<"w">>, <<"c">>, <<PlainAgent(<<"a">>)>>)}

WorkflowRequests ==
    [Version : {<<>>, <<" ", "v", "1">>, <<"v", "2">>},
     Query : {<<" ">>, <<"q">>},
     Inputs : UNION {[1..n -> WorkflowInputs] : n \in 0..MaxInputs},
     Session : SessionDeclarations,
     Callback : CallbackDeclarations \cup {EmptyCallback},
     Callbacks : UNION {[1..n -> AdditionalCallbacks] : n \in 0..MaxCallbacks},
     Workflow : WorkflowDeclarations]

\* one call of ValidateWorkflowRequest
CallValidateWorkflowRequest ==
    /\ call = NoResult
    /\ \E r \in WorkflowRequests :
         call' = [kind |-> "ValidateWorkflowRequest", req |-> r,
                  err |-> ValidateWorkflowRequest(r)]
    /\ UNCHANGED <<resultVars, itemVars, respVars, serviceVars, approvalVars, accessorVars, pollVars>>

\* ---------------------------------------------------------------- buildInputItems
MaxBuildInputs == 2
MaxParts == 2

MessageType == <<"m", "e", "s", "s", "a", "g", "e">>
TextType == <<"t", "e", "x", "t">>
ImageType == <<"i", "m", "a", "g", "e">>
InputTextKind == <<"i", "n", "p", "u", "t", "_">> \o TextType
InputImageKind == <<"i", "n", "p", "u", "t", "_">> \o ImageType
InputFileKind == <<"i", "n", "p", "u", "t", "_", "f", "i", "l", "e">>
UserRole == <<"u", "s", "e", "r">>
AssistantRole == <<"a", "s", "s", "i", "s", "t", "a", "n", "t">>
SystemRole == <<"s", "y", "s", "t", "e", "m">>
DeveloperRole == <<"d", "e", "v", "e", "l", "o", "p", "e", "r">>

\* the values of an `any`: nil, a string, a []any, a map[string]any, a number
NilContent == [kind |-> "nil"]
StringContent(str) == [kind |-> "string", value |-> str]
ListContent(parts) == [kind |-> "list", parts |-> parts]
NumberContent == [kind |-> "number"]
\* a map with the keys the conversion reads; an absent key reads as ""
MapContent(type, text, url, fileID, parts) ==
    [kind |-> "map", type |-> type, text |-> text, image_url |-> url,
     file_id |-> fileID, parts |-> parts]

\* the result of a conversion: a value or an error
Converted(value) == [ok |-> TRUE, value |-> value]
Failed(err) == [ok |-> FALSE, err |-> err]

defaultString(value, fallback) == IF TrimSpace(value) = <<>> THEN fallback ELSE value

normalizeMessageRole(role) ==
    LET r == ToLower(TrimSpace(role))
    IN IF r \in {<<>>, UserRole} THEN Converted(UserRole)
       ELSE IF r \in {AssistantRole, SystemRole, DeveloperRole} THEN Converted(r)
       ELSE Failed("role not supported")

\* buildContentUnion: one part of a content list
buildContentUnion(value) ==
    IF value.kind = "string"
      THEN Converted([kind |-> "input_text", Text |-> value.value])
    ELSE IF value.kind = "map"
      THEN LET kind == ToLower(TrimSpace(defaultString(value.type, InputTextKind)))
           IN IF kind \in {InputTextKind, TextType}
                THEN (IF TrimSpace(value.text) = <<>>
                        THEN Failed("text content requires text field")
                        ELSE Converted([kind |-> "input_text", Text |-> value.text]))
              ELSE IF kind \in {InputImageKind, ImageType}
                THEN (IF TrimSpace(value.image_url) = <<>> /\ TrimSpace(value.file_id) = <<>>
                        THEN Failed("image content requires image_url or file_id")
                        ELSE Converted([kind |-> "input_image",
                                        ImageURL |-> TrimSpace(value.image_url),
                                        FileID |-> TrimSpace(value.file_id)]))
              ELSE IF kind \in {InputFileKind, <<"f", "i", "l", "e">>}
                THEN (IF TrimSpace(value.file_id) = <<>>
                        THEN Failed("file content requires file_url, file_data, or file_id")
                        ELSE Converted([kind |-> "input_file",
                                        FileID |-> TrimSpace(value.file_id)]))
              ELSE Failed("custom content missing recognized payload")
    ELSE Failed("unsupported content item type")

\* buildMessageContentList: the parts converted one by one, in their order
RECURSIVE buildContentListFrom(_, _)
buildContentListFrom(parts, i) ==
    IF i > Len(parts) THEN Converted(<<>>)
    ELSE IF ~buildContentUnion(parts[i]).ok
      THEN Failed(<<"content", i - 1, buildContentUnion(parts[i]).err>>)
    ELSE LET rest == buildContentListFrom(parts, i + 1)
         IN IF rest.ok
              THEN Converted(<<buildContentUnion(parts[i]).value>> \o rest.value)
              ELSE rest

buildMessageContentList(parts) ==
    IF Len(parts) = 0 THEN Failed(<<"content", 0, "message content list cannot be empty">>)
    ELSE LET list == buildContentListFrom(parts, 1)
         IN IF list.ok THEN Converted([kind |-> "list", parts |-> list.value]) ELSE list

\* the content of the message built from input.Content
buildMessageContent(in) ==
    IF in.Content.kind = "nil" /\ TrimSpace(in.URI) # <<>>
      THEN buildMessageContentList(
               <<MapContent(InputImageKind, <<>>, TrimSpace(in.URI), <<>>, NilContent)>>)
    ELSE IF in.Content.kind = "nil"
      THEN Failed(<<"message", 0, "message input requires content">>)
    ELSE IF in.Content.kind = "string"
      THEN Converted([kind |-> "string", value |-> in.Content.value])
    ELSE IF in.Content.kind = "list"
      THEN buildMessageContentList(in.Content.parts)
    ELSE IF in.Content.kind = "map"
      THEN (IF in.Content.parts.kind = "list"
              THEN buildMessageContentList(in.Content.parts.parts)
            ELSE IF in.Content.parts.kind # "nil"
              THEN Failed(<<"message", 0, "message content parts must be an array">>)
            ELSE IF in.Content.text # <<>>
              THEN Converted([kind |-> "string", value |-> in.Content.text])
            ELSE Failed(<<"message", 0, "decode message content">>))
    ELSE Failed(<<"message", 0, "message content type not supported">>)

\* buildMessageInput: the role, then the content
buildMessageInput(in) ==
    IF ~normalizeMessageRole(in.Role).ok
      THEN Failed(<<"message", 0, normalizeMessageRole(in.Role).err>>)
    ELSE IF ~buildMessageContent(in).ok THEN buildMessageContent(in)
    ELSE Converted([kind |-> "message",
                    Role |-> normalizeMessageRole(in.Role).value,
                    Content |-> buildMessageContent(in).value])

BuildInput(type, role, uri, content) ==
    [Type |-> type, Role |-> role, URI |-> uri, Content |-> content]

\* the message input a text input is rewritten to
TextAsMessage(in) ==
    BuildInput(MessageType,
               IF TrimSpace(in.Role) = <<>> THEN UserRole ELSE in.Role,
               IF in.Content.kind = "nil" /\ TrimSpace(in.URI) # <<>> THEN <<>> ELSE in.URI,
               IF in.Content.kind = "nil" /\ TrimSpace(in.URI) # <<>>
                 THEN StringContent(TrimSpace(in.URI)) ELSE in.Content)

\* the message input an image input is rewritten to
\* variant: the image part carries no URL
ImageAsMessage_NoURL(in) ==
    BuildInput(MessageType, TrimSpace(defaultString(in.Role, UserRole)), <<>>,
               ListContent(<<MapContent(InputImageKind, <<>>, <<>>, <<>>, NilContent)>>))

ImageAsMessage(in) ==
    BuildInput(MessageType, TrimSpace(defaultString(in.Role, UserRole)), <<>>,
               IF in.Content.kind = "list" THEN in.Content
               ELSE IF in.Content.kind = "map" THEN ListContent(<<in.Content>>)
               ELSE ListContent(<<MapContent(InputImageKind, <<>>, TrimSpace(in.URI),
                                             <<>>, NilContent)>>))

workflowInputToResponseItem(in) ==
    LET type == ToLower(TrimSpace(in.Type))
    IN IF type = MessageType THEN buildMessageInput(in)
       ELSE IF type = TextType
         THEN (IF TextAsMessage(in).Content.kind = "nil"
                 THEN Failed(<<"text", 0, "text input requires content or uri">>)
                 ELSE buildMessageInput(TextAsMessage(in)))
       ELSE IF type = ImageType
         THEN (IF TrimSpace(in.URI) = <<>> /\ in.Content.kind = "nil"
                 THEN Failed(<<"image", 0, "image input requires uri or content">>)
                 ELSE buildMessageInput(ImageAsMessage(in)))
       ELSE Failed(<<"type", 0, "type not supported yet">>)

\* the loop of buildInputItems: stops at the first input that fails
RECURSIVE buildInputItemsFrom(_, _)
buildInputItemsFrom(inputs, idx) ==
    IF idx > Len(inputs) THEN [ok |-> TRUE, items |-> <<>>, index |-> 0]
    ELSE IF ~workflowInputToResponseItem(inputs[idx]).ok
      THEN [ok |-> FALSE, items |-> <<>>, index |-> idx - 1]
    ELSE LET rest == buildInputItemsFrom(inputs, idx + 1)
         IN IF rest.ok
              THEN [ok |-> TRUE,
                    items |-> <<workflowInputToResponseItem(inputs[idx]).value>>
                                 \o rest.items,
                    index |-> 0]
              ELSE rest

buildInputItems(inputs) == buildInputItemsFrom(inputs, 1)

\* the parts of a content list
ContentParts ==
    {StringContent(<<"p">>),
     MapContent(ImageType, <<>>, <<" ", "u">>, <<>>, NilContent),
     NumberContent}

PartLists == UNION {[1..n -> ContentParts] : n \in 0..MaxParts}

\* the inputs converted
BuildInputs ==
    {BuildInput(MessageType, <<>>, <<>>, StringContent(<<"c">>)),
     BuildInput(TextType, AssistantRole, <<"u">>, NilContent),
     BuildInput(<<" ", "I", "m", "a", "g", "e">>, <<>>, <<"u", " ">>, NilContent),
     BuildInput(ImageType, <<>>, <<" ">>, NilContent),
     BuildInput(MessageType, <<"r">>, <<>>, StringContent(<<"c">>)),
     BuildInput(<<"j", "s", "o", "n">>, <<>>, <<"u">>, NilContent)}
    \cup {BuildInput(MessageType, UserRole, <<>>, ListContent(parts)) : parts \in PartLists}

\* one call of buildInputItems
CallBuildInputItems ==
    /\ call = NoResult
    /\ \E inputs \in UNION {[1..n -> BuildInputs] : n \in 0..MaxBuildInputs} :
         call' = [kind |-> "buildInputItems", inputs |-> inputs,
                  result |-> buildInputItems(inputs)]
    /\ UNCHANGED <<resultVars, itemVars, respVars, serviceVars, approvalVars, accessorVars, pollVars>>

\* ---------------------------------------------------------------- multiCallbackPublisher
MaxPublishers == 3

\* a publisher of the list: nil, or one whose Publish returns err
NilPublisher == [nil |-> TRUE, err |-> NoError]
CallbackPublisher(err) == [nil |-> FALSE, err |-> err]

CallbackPublishers ==
    {NilPublisher, CallbackPublisher(NoError), CallbackPublisher("e1"),
     CallbackPublisher("e2")}

\* the loop of Publish from publisher i on: the positions delivered to so
\* far and firstErr
\* variant: the loop returns at the first error
RECURSIVE PublishFrom_StopAtError(_, _, _, _)
PublishFrom_StopAtError(m, i, delivered, firstErr) ==
    IF i > Len(m) THEN [delivered |-> delivered, err |-> firstErr]
    ELSE IF m[i].nil THEN PublishFrom_StopAtError(m, i + 1, delivered, firstErr)
    ELSE IF m[i].err # NoError
      THEN [delivered |-> Append(delivered, i), err |-> m[i].err]
    ELSE PublishFrom_StopAtError(m, i + 1, Append(delivered, i), firstErr)

RECURSIVE PublishFrom(_, _, _, _)
PublishFrom(m, i, delivered, firstErr) ==
    IF i > Len(m) THEN [delivered |-> delivered, err |-> firstErr]
    ELSE IF m[i].nil THEN PublishFrom(m, i + 1, delivered, firstErr)
    ELSE PublishFrom(m, i + 1, Append(delivered, i),
                     IF m[i].err # NoError /\ firstErr = NoError
                       THEN m[i].err ELSE firstErr)

\* multiCallbackPublisher.Publish(ctx, event)
multiCallbackPublisher_Publish(m) == PublishFrom(m, 1, <<>>, NoError)

\* one call of Publish on a list of publishers
CallPublish ==
    /\ call = NoResult
    /\ \E m \in UNION {[1..n -> CallbackPublishers] : n \in 0..MaxPublishers} :
         call' = [kind |-> "Publish", publishers |-> m,
                  result |-> multiCallbackPublisher_Publish(m)]
    /\ UNCHANGED <<resultVars, itemVars, respVars, serviceVars, approvalVars, accessorVars, pollVars>>

\* ---------------------------------------------------------------- Builder.Build
\* the references one agent can carry
MaxRefs == 1

\* agentMap once the first pass is through: keyed by decl.Name
agentMap(agents) == {agents[i].Name : i \in 1..Len(agents)}

\* for _, ref := range item.decl.Handoffs { target, ok := agentMap[ref.Agent] ... }
RECURSIVE attachHandoffsFrom(_, _, _)
attachHandoffsFrom(handoffs, i, known) ==
    IF i > Len(handoffs) THEN "nil"
    ELSE IF handoffs[i].Agent \notin known THEN "references unknown handoff agent"
    ELSE attachHandoffsFrom(handoffs, i + 1, known)

\* for _, ref := range item.agentTools { target, ok := agentMap[ref.AgentName] ... }
RECURSIVE attachAgentToolsFrom(_, _, _)
attachAgentToolsFrom(tools, i, known) ==
    IF i > Len(tools) THEN "nil"
    ELSE IF tools[i].AgentName \notin known THEN "agent_tool references unknown agent"
    ELSE attachAgentToolsFrom(tools, i + 1, known)

\* the second pass over the pending agents, in the order of the declaration
RECURSIVE attachFrom(_, _, _)
attachFrom(agents, i, known) ==
    IF i > Len(agents) THEN "nil"
    ELSE IF attachHandoffsFrom(agents[i].Handoffs, 1, known) # "nil"
           THEN attachHandoffsFrom(agents[i].Handoffs, 1, known)
    ELSE IF attachAgentToolsFrom(agents[i].AgentTools, 1, known) # "nil"
           THEN attachAgentToolsFrom(agents[i].AgentTools, 1, known)
    ELSE attachFrom(agents, i + 1, known)

\* the second pass and the lookup of the starting agent
BuildAgents(workflow) ==
    IF attachFrom(workflow.Agents, 1, agentMap(workflow.Agents)) # "nil"
      THEN attachFrom(workflow.Agents, 1, agentMap(workflow.Agents))
    ELSE IF workflow.StartingAgent \notin agentMap(workflow.Agents)
      THEN "starting agent missing"
    ELSE "nil"

\* Build: the validation first; the session factory, the first pass or what
\* follows the starting agent can fail for reasons of their own (otherFails
\* says where: before the second pass, after it, or nowhere)
Build(request, otherFails) ==
    IF ValidateWorkflowRequest(request) # NoValidationError
      THEN [kind |-> "validation", err |-> ValidateWorkflowRequest(request)]
    ELSE IF otherFails = "before" THEN [kind |-> "build", err |-> "other"]
    ELSE IF BuildAgents(request.Workflow) # "nil"
      THEN [kind |-> "build", err |-> BuildAgents(request.Workflow)]
    ELSE IF otherFails = "after" THEN [kind |-> "build", err |-> "other"]
    ELSE [kind |-> "built", err |-> "nil"]

\* the agents of the requests built
AgentNameLists ==
    {<<<<"a">>>>, <<<<"a">>, <<"b">>>>, <<<<"a">>, <<"a">>>>, <<<<"a">>, <<>>>>}

HandoffLists ==
    UNION {[1..n -> {AgentHandoffDeclaration(t) : t \in {<<"b">>, <<"c">>, <<" ">>}}] :
              n \in 0..MaxRefs}

AgentToolLists ==
    UNION {[1..n -> {AgentToolReference(t) : t \in {<<"b">>, <<"c">>}}] : n \in 0..MaxRefs}

\* the agent lists with the names of one name list
AgentLists ==
    UNION {{agents \in [1..Len(names) ->
                          {AgentDeclaration(nm, h, t) :
                              nm \in {names[i] : i \in 1..Len(names)},
                              h \in HandoffLists, t \in AgentToolLists}] :
               \A i \in 1..Len(names) : agents[i].Name = names[i]} :
           names \in AgentNameLists}

BuildRequests ==
    [Version : {<<>>},
     Query : {<<" ">>, <<"q">>},
     Inputs : {<<>>},
     Session : {SessionDeclaration(<<"s">>, <<"u">>, <<"a">>, 0, 0, <<>>)},
     Callback : {CallbackDeclaration(<<>>, <<"S", "t", "d", "o", "u", "t">>, 0, FALSE)},
     Callbacks : {<<>>},
     Workflow : {WorkflowDeclaration(<<"w">>, start, agents) :
                    start \in {<<"a">>, <<"c">>}, agents \in AgentLists}]

\* one call of Build
CallBuild ==
    /\ call = NoResult
    /\ \E r \in BuildRequests, otherFails \in {"none", "before", "after"} :
         call' = [kind |-> "Build", req |-> r, result |-> Build(r, otherFails)]
    /\ UNCHANGED <<resultVars, itemVars, respVars, serviceVars, approvalVars, accessorVars, pollVars>>

\* ---------------------------------------------------------------- Execute on a whole request
\* an input with what the validation and the conversion read of it
ExecuteInput(type, uri, content) ==
    [Type |-> type, Role |-> <<>>, URI |-> uri, Content |-> content,
     HasContent |-> content.kind # "nil"]

ExecuteInputs ==
    {ExecuteInput(TextType, <<"u">>, NilContent),
     ExecuteInput(MessageType, <<>>, StringContent(<<"c">>)),
     ExecuteInput(<<"j", "S", "o", "n">>, <<"u">>, NilContent),
     ExecuteInput(<<"a", "u", "d", "i", "o">>, <<>>, StringContent(<<"c">>)),
     ExecuteInput(<<"v", "I", "d", "e", "o">>, <<"u">>, NilContent),
     ExecuteInput(<<" ", "j", "s", "o", "n">>, <<"u">>, NilContent)}

ExecuteRequests ==
    [Version : {<<>>},
     Query : {<<"q">>},
     Inputs : UNION {[1..n -> ExecuteInputs] : n \in 0..MaxInputs},
     Session : {SessionDeclaration(<<"s">>, <<"u">>, <<"a">>, 0, 0, <<>>)},
     Callback : {CallbackDeclaration(<<>>, <<"S", "t", "d", "o", "u", "t">>, 0, FALSE),
                 CallbackDeclaration(<<"h", ":", "/", "/", "x">>, <<>>, 0, FALSE)},
     Callbacks : {<<>>},
     Workflow : {WorkflowDeclaration(<<"w">>, <<"a">>, <<PlainAgent(<<"a">>)>>),
                 WorkflowDeclaration(<<"w">>, <<"c">>, <<PlainAgent(<<"a">>)>>)}]

\* where Execute ends before it creates the task, if it does: Build, then
\* buildInputItems, then the callback factory
\* variant: the inputs are not converted before the task is created
EarlyError_NoConversion(request, otherFails, publisherFails) ==
    IF Build(request, otherFails).kind # "built" THEN "build"
    ELSE IF publisherFails THEN "publisher"
    ELSE "none"

EarlyError(request, otherFails, publisherFails) ==
    IF Build(request, otherFails).kind # "built" THEN "build"
    ELSE IF ~buildInputItems(request.Inputs).ok THEN "inputs"
    ELSE IF publisherFails THEN "publisher"
    ELSE "none"

\* mode == "stdout" || mode == "stdout_verbose", for the one callback declared
IsStdout(cb) == ToLower(cb.Mode) \in {StdoutMode, StdoutVerboseMode}

\* Execute(ctx, req) on a whole request
ExecuteWorkflow ==
    /\ NoCallYet
    /\ call = NoResult
    /\ \E r \in ExecuteRequests, otherFails \in {"none", "before", "after"},
          publisherFails \in BOOLEAN :
        /\ ExecuteBody([SessionID |-> r.Session.SessionID, WorkflowName |-> r.Workflow.Name],
                       EarlyError(r, otherFails, publisherFails),
                       IsStdout(r.Callback), ~IsStdout(r.Callback))
        /\ call' = [kind |-> "Execute", req |-> r, otherFails |-> otherFails]
    /\ UNCHANGED <<resultVars, itemVars, respVars, resumeResult, approvalVars, accessorVars,
                   pollVars>>

ExecuteNext ==
    \/ ExecuteWorkflow
    \/ TraceStart
    \/ OnRunStarted
    \/ StartRun
    \/ StreamVisit
    \/ StreamReturn
    \/ TraceReturn

SpecExecute == ServiceInit /\ [][ExecuteNext]_vars

CallsNext ==
    \/ CallValidateWorkflowRequest
    \/ CallBuildInputItems
    \/ CallPublish
    \/ CallBuild

SpecCalls == Init /\ [][CallsNext]_vars

\* ---------------------------------------------------------------- accessors
\* RawResponses() and appendRawResponses at the level of memory: the atomic
\* pointer holds a slice header; append writes the new elements behind the
\* length of the slice it was given, in place when the capacity allows and
\* in a new array otherwise; Store publishes the new header.
MaxAppendCalls == 3
MaxReads == 2
MaxSpare == 1

\* the zero value of a cell, and the k-th response of the c-th call: every
\* response appended is a different one
ZeroResponse == ModelResponse(0)

AppendedResponses(c, n) == [k \in 1..n |-> ModelResponse(10 * c + k)]

\* cap(s)
Cap(header) == IF header.arr = 0 THEN 0 ELSE Len(heap[header.arr])

\* the elements of a slice
Elements(header, mem) ==
    IF header.arr = 0 THEN <<>> ELSE SubSeq(mem[header.arr], 1, header.len)

\* the cell append writes its k-th new element to
\* variant: append writes from the first cell of the array on
WriteIndex_FromStart(header, k) == k

WriteIndex(header, k) == header.len + k

\* the header append returns: the elements of the slice and the n new ones
\* variant: the header stored covers the new elements only
AppendedHeader_NewOnly(header, target, n) == SliceHeader(target, n)

AppendedHeader(header, target, n) == SliceHeader(target, header.len + n)

\* appendRawResponses(v...): r.RawResponses() loads the header
AppendLoad ==
    /\ wPc = "idle"
    /\ appendCalls < MaxAppendCalls
    /\ appendCalls' = appendCalls + 1
    /\ wHeader' = rawHeader
    /\ \E n \in 1..MaxAppend : wArgs' = AppendedResponses(appendCalls + 1, n)
    /\ wPc' = "grow"
    /\ UNCHANGED <<heap, rawHeader, committed, wTarget, wIdx, rdPc, rdHeader, reads>>
    /\ UNCHANGED <<resultVars, itemVars, respVars, serviceVars, approvalVars, call, pollVars>>

\* append: the array the new elements go to: the one of the slice when its
\* capacity suffices, else a new one, sufficiently large, with a copy of the
\* elements
AppendGrow ==
    /\ wPc = "grow"
    /\ IF wHeader.len + Len(wArgs) <= Cap(wHeader)
         THEN /\ wTarget' = wHeader.arr
              /\ UNCHANGED heap
         ELSE \E spare \in 0..MaxSpare :
                /\ wTarget' = Len(heap) + 1
                /\ heap' = Append(heap,
                                  Elements(wHeader, heap)
                                  \o [i \in 1..(Len(wArgs) + spare) |-> ZeroResponse])
    /\ wIdx' = 1
    /\ wPc' = "write"
    /\ UNCHANGED <<rawHeader, committed, appendCalls, wHeader, wArgs, rdPc, rdHeader, reads>>
    /\ UNCHANGED <<resultVars, itemVars, respVars, serviceVars, approvalVars, call, pollVars>>

\* append: one new element is written
AppendWrite ==
    /\ wPc = "write"
    /\ wIdx <= Len(wArgs)
    /\ WriteIndex(wHeader, wIdx) \in 1..Len(heap[wTarget])
    /\ heap' = [heap EXCEPT ![wTarget][WriteIndex(wHeader, wIdx)] = wArgs[wIdx]]
    /\ wIdx' = wIdx + 1
    /\ UNCHANGED <<rawHeader, committed, appendCalls, wPc, wHeader, wArgs, wTarget, rdPc,
                   rdHeader, reads>>
    /\ UNCHANGED <<resultVars, itemVars, respVars, serviceVars, approvalVars, call, pollVars>>

\* setRawResponses: r.rawResponses.Store(&v)
AppendStore ==
    /\ wPc = "write"
    /\ wIdx > Len(wArgs)
    /\ rawHeader' = AppendedHeader(wHeader, wTarget, Len(wArgs))
    /\ committed' = Append(committed, committed[Len(committed)] \o wArgs)
    /\ wPc' = "idle"
    /\ UNCHANGED <<heap, appendCalls, wHeader, wArgs, wTarget, wIdx, rdPc, rdHeader, reads>>
    /\ UNCHANGED <<resultVars, itemVars, respVars, serviceVars, approvalVars, call, pollVars>>

\* RawResponses(): *r.rawResponses.Load()
RawResponsesLoad ==
    /\ rdPc = "idle"
    /\ Len(reads) < MaxReads
    /\ rdHeader' = rawHeader
    /\ rdPc' = "loaded"
    /\ UNCHANGED <<heap, rawHeader, committed, appendCalls, wPc, wHeader, wArgs, wTarget,
                   wIdx, reads>>
    /\ UNCHANGED <<resultVars, itemVars, respVars, serviceVars, approvalVars, call, pollVars>>

\* the caller of RawResponses() looks at the elements of the slice it got
RawResponsesRead ==
    /\ rdPc = "loaded"
    /\ reads' = Append(reads, Elements(rdHeader, heap))
    /\ rdPc' = "idle"
    /\ UNCHANGED <<heap, rawHeader, committed, appendCalls, wPc, wHeader, wArgs, wTarget,
                   wIdx, rdHeader>>
    /\ UNCHANGED <<resultVars, itemVars, respVars, serviceVars, approvalVars, call, pollVars>>

AccessorsNext ==
    \/ AppendLoad
    \/ AppendGrow
    \/ AppendWrite
    \/ AppendStore
    \/ RawResponsesLoad
    \/ RawResponsesRead

SpecAccessors == Init /\ [][AccessorsNext]_vars

\* ---------------------------------------------------------------- polls
\* checkErrors called on states set up freely: any turn counter and limit,
\* any guardrail results queued, every task absent, running or finished with
\* or without an error, the fields changing between two polls.
MaxPolls == 2

\* the RunData a task error comes with: none, its own, or the error is no
\* AgentsError at all
OwnRunData == [kind |-> "own"]
NotAgentsError == [kind |-> "not_agents_error"]

TaskStates == {NilTask, RunningTask, TaskFinish(RunningTask, FALSE), TaskFinish(RunningTask, TRUE)}

GuardrailQueues ==
    UNION {[1..n -> {[TripwireTriggered |-> b] : b \in BOOLEAN}] : n \in 0..MaxGuardrailResults}

\* what setInputGuardrailResults has stored when the poll comes
StoredGuardrailResults == {<<>>, <<[TripwireTriggered |-> FALSE]>>}

\* the state the run has brought the result to when the poll comes
PollSetup ==
    /\ ~started
    /\ polls = 0
    /\ started' = TRUE
    /\ currentTurn' \in 0..(MaxTurnsLimit + 1)
    /\ maxTurns' \in 0..MaxTurnsLimit
    /\ inputGuardrailQueue' \in GuardrailQueues
    /\ runImplTask' \in TaskStates
    /\ inputGuardrailsTask' \in TaskStates
    /\ outputGuardrailsTask' \in TaskStates
    /\ \E data \in {NoRunData, OwnRunData, NotAgentsError} :
         taskErrorData' = [t \in TaskNames |-> data]
    /\ inputGuardrailResults' \in StoredGuardrailResults
    /\ UNCHANGED pollTaken
    /\ UNCHANGED <<newItems, rawResponses, finalOutput, currentAgent, isComplete, eventQueue,
                   storedError, storedRunData, runVars, igCount, streamVars, cancelVars,
                   pushed, tripPushed, polls, pollRecorded>>
    /\ UNCHANGED <<itemVars, respVars, serviceVars, approvalVars, call, accessorVars>>

\* the run-execution task goes on between two polls: an item and a response
\* more, or another agent
PollFieldsChange ==
    /\ started
    /\ polls < MaxPolls
    /\ \/ /\ Len(newItems) < MaxNewItems
          /\ newItems' = Append(newItems, Len(newItems) + 1)
          /\ rawResponses' = Append(rawResponses, ModelResponse("resp_a"))
          /\ UNCHANGED currentAgent
       \/ /\ currentAgent = NilAgent
          /\ currentAgent' = 1
          /\ UNCHANGED <<newItems, rawResponses>>
    /\ UNCHANGED <<started, finalOutput, currentTurn, maxTurns, isComplete, queueVars,
                   taskVars, storedError, storedRunData, runVars, igCount, streamVars,
                   cancelVars, pushed, tripPushed, pollVars>>
    /\ UNCHANGED <<itemVars, respVars, serviceVars, approvalVars, call, accessorVars>>

\* if errors.As(err, &agentsErr) && agentsErr.RunData == nil
\*     { agentsErr.RunData = r.createErrorDetails() }
\* variant: the snapshot is attached at every poll
AttachRunData_Always(t, data) ==
    IF t.st # "nil" /\ IsDone(t) /\ t.err /\ data # NotAgentsError
      THEN createErrorDetails ELSE data

AttachRunData(t, data) ==
    IF t.st # "nil" /\ IsDone(t) /\ t.err /\ data = NoRunData
      THEN createErrorDetails ELSE data

\* one call of checkErrors
PollCheckErrors ==
    /\ polls < MaxPolls
    /\ polls' = polls + 1
    /\ checkErrors
    /\ pollRecorded' = PollErrors
    /\ taskErrorData' =
          [t \in TaskNames |->
              AttachRunData(CASE t = "run_impl" -> runImplTask
                              [] t = "input_guardrails" -> inputGuardrailsTask
                              [] OTHER -> outputGuardrailsTask,
                            taskErrorData[t])]
    /\ pollTaken' = SubSeq(inputGuardrailQueue, 1,
                            Len(inputGuardrailQueue) - Len(inputGuardrailQueue'))
    /\ UNCHANGED inputGuardrailResults
    /\ UNCHANGED <<started, fieldVars, isComplete, eventQueue, taskVars, runVars, igCount,
                   sePc, seRet, seVisits, seAfterCancel, seAfterSentinel, sentinelConsumed,
                   visited, cancelVars, pushed, tripPushed>>
    /\ UNCHANGED <<itemVars, respVars, serviceVars, approvalVars, call, accessorVars>>

PollNext ==
    \/ PollSetup
    \/ PollFieldsChange
    \/ PollCheckErrors

SpecPoll == Init /\ [][PollNext]_vars

\* ---------------------------------------------------------------- properties
IsPrefix(a, b) == Len(a) <= Len(b) /\ SubSeq(b, 1, Len(a)) = a

\* a is a subsequence of b, order kept: event ids are positions of b
IsOrderedSubseq(a, b) ==
    /\ \A i \in 1..Len(a) : a[i].id \in 1..Len(b) /\ b[a[i].id] = a[i]
    /\ \A i \in 1..Len(a), j \in 1..Len(a) : i < j => a[i].id < a[j].id

Returned == sePc = "ret"

ReturnedStored == sePc = "ret" /\ seRet # VisitorError

TaskFailed(t) == IsDone(t) /\ t.err

FailedTaskErrors ==
    (IF TaskFailed(runImplTask) THEN {RunImplTaskError} ELSE {})
    \cup (IF TaskFailed(inputGuardrailsTask) THEN {InputGuardrailsTaskError} ELSE {})
    \cup (IF TaskFailed(outputGuardrailsTask) THEN {OutputGuardrailsTaskError} ELSE {})

AllTasksDone == TasksConverged(runImplTask, inputGuardrailsTask, outputGuardrailsTask)

CancelReturned == cDone >= 1 /\ cPc = "idle"

C2_NoTaskRunningAfterReturn == Returned => AllTasksDone

\* C3: when a poll finds the turn counter above max turns and a tripped
\* guardrail result waiting, StreamEvents returns the turn-limit error
\* (no task failed, no visitor error).
C3_FirstConditionReturned ==
    (ReturnedStored /\ bothPolled /\ FailedTaskErrors = {})
        => seRet = MaxTurnsExceededError

\* C4: once an error has been recorded in the stored-error slot, no later
\* poll replaces it (so that the first one recorded is the one returned).
C4_StoredErrorKept == [][storedError # NoError => storedError' = storedError]_vars

\* C5: once a Cancel has returned, IsComplete() is true, both queues are
\* empty and every task is done, so a further Cancel does not block; and no
\* step of a further Cancel changes the completion flag, the queues, the
\* tasks or the stored error.
C5_CancelIdempotent ==
    [][ /\ cDone >= 1 =>
            (isComplete /\ IsEmpty(eventQueue) /\ IsEmpty(inputGuardrailQueue)
             /\ AllTasksDone)
        /\ (cDone >= 1 /\ cPc' # cPc) =>
            (/\ isComplete' = isComplete
             /\ queueVars' = queueVars
             /\ taskVars' = taskVars
             /\ storedError' = storedError) ]_vars

C5_Witness == cDone = 2 /\ cPc = "idle"

\* C6: after Cancel returns, IsComplete() is true, every created task is
\* done and both queues are empty; a StreamEvents call started afterwards
\* passes no event to the visitor.
C6_AfterCancel ==
    /\ CancelReturned =>
        (isComplete /\ AllTasksDone /\ IsEmpty(eventQueue) /\ IsEmpty(inputGuardrailQueue))
    /\ seAfterCancel => seVisits = 0

C6_Witness == seAfterCancel /\ Returned /\ Len(pushed) >= 1

\* C7: a StreamEvents call that was blocked on the empty event queue when
\* Cancel was called is not left blocked once Cancel has returned and every
\* task is done (nothing could release it any more) - stated for the runs
\* whose run-execution task pushed the sentinel before it ended.
C7_BlockedGetReleased ==
    ~(cancelSawBlocked /\ sePc = "get" /\ IsEmpty(eventQueue)
      /\ CancelReturned /\ AllTasksDone /\ rPc = "done"
      /\ rOutcome # "cancelled_silent")

\* C8: when the visitor returns an error, StreamEvents returns that error at
\* once, the stored-error slot is left as it was, and the visitor is not
\* invoked again by that call.
C8_VisitorErrorReturned ==
    [][ /\ (sePc = "get" /\ sePc' = "ret") =>
            (seRet' = VisitorError /\ storedError' = storedError
             /\ Len(visited') = Len(visited) + 1)
        /\ (sePc = "ret" /\ sePc' = "ret") => visited' = visited ]_vars

C8_Witness == Returned /\ seRet = VisitorError /\ storedError = NoError /\ Len(visited) = 2

C10_NaturalCompletion ==
    (ReturnedStored /\ rOutcome = "natural" /\ ~tripPushed /\ FailedTaskErrors = {})
        => /\ seRet = NoError
           /\ isComplete
           /\ storedError = NoError
           /\ lastResponseID(rawResponses) = ResponseIDs[needTurns]

C10_Witness ==
    /\ ReturnedStored
    /\ rOutcome = "natural"
    /\ seRet = NoError
    /\ Len(rawResponses) = 2
    /\ currentTurn = maxTurns

\* events that carry an output item of a model call
ItemEvents(seq) == {i \in 1..Len(seq) : seq[i].kind = "item"}

C12_NoItemBeforeTripwire ==
    (Returned /\ seRet = InputGuardrailTripwireTriggeredError)
        => ItemEvents(visited) = {}

\* C13: once IsComplete() is true no later step of StreamEvents changes a
\* field of the run state (new items, raw responses, final output, current
\* agent, turn counter, max turns) or the stored error.
C13_FrozenAfterComplete ==
    [][(isComplete /\ sePc' # sePc)
          => (fieldVars' = fieldVars /\ storedError' = storedError)]_vars

\* C14: a StreamEvents call made after an earlier call consumed the sentinel
\* never waits on the event queue and passes no event to the visitor.
C14_AfterSentinelNoBlock ==
    seAfterSentinel => (sePc # "get" /\ seVisits = 0)

C14_Witness == seAfterSentinel /\ Returned /\ Len(visited) >= 1

\* C15: ToInputItem returns a normalised input item for every RunItem
\* variant, a ToolCallItem of each of the eight call kinds included; no
\* conversion fails.
C15_NoConversionFails == ~IsPanic(converted)

\* what ToInputList is to return: the normalised input, then the new items
\* converted in order
ExpectedInputList ==
    InputToNewInputList(input) \o [i \in 1..Len(newItems) |-> ToInputItem(newItems[i])]

ListReturned(i) == i \in 1..Len(listResults) /\ ~IsPanic(listResults[i])

C16_Returned ==
    \A i \in 1..Len(listResults) :
        ListReturned(i) =>
            /\ listResults[i].value = ExpectedInputList
            /\ Len(listResults[i].value) = Len(InputToNewInputList(input)) + Len(newItems)
            /\ listResults[i] = listResults[1]

C17_LastResponseID ==
    lastIDResult # NoResult =>
        lastIDResult.value =
            (IF lastAppended = NoResult THEN "" ELSE lastAppended.ResponseID)

C17_Witness ==
    /\ lastIDResult # NoResult
    /\ lastIDResult.value = "resp_b"
    /\ Len(rawResponses) = 3
    /\ rawResponses[1].ResponseID = "resp_a"

\* the Execute task has ended with a summary
Finished == svcPc = "idle" /\ taskResult.kind = "summary"

\* run.started, then run.event only, then one terminal event
IsRunSequence(seq) ==
    /\ Len(seq) >= 2
    /\ seq[1] = "run.started"
    /\ seq[Len(seq)] \in {"run.completed", "run.failed"}
    /\ \A i \in 2..(Len(seq) - 1) : seq[i] = "run.event"

\* C18: for every run started by Execute, the events handed to the callback
\* publisher are one run.started, then run.event only, then exactly one
\* terminal event run.completed or run.failed, and nothing after it
\* (stated for the runs that publish and whose trace itself does not fail).
C18_EventSequence ==
    (Finished /\ ~skipPublishing /\ traceErr # "trace_error")
        => IsRunSequence(published)

\* the failures the run can end with inside the traced function
RunFailures == {"run_error", "stream_error", "visitor_tracker", "visitor_publisher"}

\* C19: a run that fails (the streamed run cannot be started, StreamEvents
\* returns an error, the tracker or the publisher fails in the visitor) ends
\* with a non-nil error in the task's result, exactly one failure
\* notification of the tracker, and no run.completed published.
C19_OneFailureSignal ==
    (Finished /\ summaryError \in RunFailures)
        => /\ taskResult.err # NoError
           /\ failedNotified = 1
           /\ \A i \in 1..Len(published) : published[i] # "run.completed"

C19_Witness ==
    /\ Finished
    /\ summaryError = "visitor_publisher"
    /\ failedNotified = 1
    /\ published = <<"run.started", "run.event", "run.event", "run.failed">>

\* the condition under which Resume may start the execution
ResumeAllowed(r, store) ==
    LET state == store[TrimSpace(r.SessionID)]
    IN /\ state # NoState
       /\ TrimSpace(state.ResumeToken) = TrimSpace(r.ResumeToken)
       /\ state.Status \in {ExecutionStatusWaitingApproval, ExecutionStatusFailed}
       /\ (state.WorkflowName # <<>> /\ r.WorkflowName # <<>>)
             => state.WorkflowName = r.WorkflowName

\* C20: Resume starts the execution only when the store holds a state for
\* the request's session with an equal resume token (after trimming), status
\* waiting_approval or failed, and an equal workflow name when both are
\* non-empty; otherwise it returns an error, executes nothing and leaves the
\* stored state as it was.
C20_ResumeGuard ==
    resumeResult # NoResult =>
        /\ resumeResult.kind = "started"
              => ResumeAllowed(resumeResult.req, resumeResult.store)
        /\ ~ResumeAllowed(resumeResult.req, resumeResult.store)
              => /\ resumeResult.kind = "error"
                 /\ svcPc = "idle"
                 /\ stateStore = resumeResult.store

C20_Witness ==
    /\ resumeResult # NoResult
    /\ resumeResult.kind = "started"
    /\ resumeResult.req.SessionID = <<" ", "s">>
    /\ resumeResult.req.ResumeToken = <<" ", "t">>
    /\ resumeResult.store[<<"s">>].ResumeToken = <<"t", " ">>
    /\ Finished

\* C26: once a poll of a StreamEvents call has drained a tripped
\* input-guardrail result, the call passes no further event to the visitor
\* (it is on its way out of the loop), the run is marked complete, and the
\* call returns the guardrail-tripwire error.
C26_TripwireEndsStream ==
    tripDrained =>
        /\ sePc \in {"await", "final", "ret"}
        /\ isComplete
        /\ sePc = "ret" => seRet = InputGuardrailTripwireTriggeredError

\* the approvals of before that do not have the id, in their order
OthersOf(pending, approvalID) ==
    SelectSeq(pending, LAMBDA a : a.RequestID # approvalID)

\* the state the call found under its session id
FoundState == resolveResult.store[resolveResult.sessionID]

\* C21: ResolveApproval(session, id, approve) that returns nil has removed
\* every pending approval with request id id and kept all the others in
\* their order; with no stored state, no pending approval at all, or none
\* with that id, it returns an error and the stored state is as it was.
C21_ResolveApproval ==
    resolveResult # NoResult =>
        /\ resolveResult.err = NoError
              => stateStore[resolveResult.sessionID].PendingApprovals
                    = OthersOf(FoundState.PendingApprovals, resolveResult.approvalID)
        /\ (\/ FoundState = NoState
            \/ FoundState.PendingApprovals = <<>>
            \/ \A i \in 1..Len(FoundState.PendingApprovals) :
                  FoundState.PendingApprovals[i].RequestID # resolveResult.approvalID)
              => /\ resolveResult.err # NoError
                 /\ stateStore = resolveResult.store

\* two approvals with the id around one without it: both go, the other stays
C21_Witness ==
    /\ resolveResult # NoResult
    /\ resolveResult.err = NoError
    /\ resolveResult.approvalID = "a"
    /\ FoundState.PendingApprovals
          = <<ApprovalRequestState("a", "t1"), ApprovalRequestState("b", "t1"),
              ApprovalRequestState("a", "t2")>>
    /\ stateStore[<<"s">>].PendingApprovals = <<ApprovalRequestState("b", "t1")>>

\* C29: ResolveApproval changes the status only when it removes the last
\* pending approval while the status is waiting_approval: the status is then
\* idle if approve is true and failed otherwise; while approvals remain
\* pending, or with any other status, the status is left as it was.
C29_StatusOnLastApproval ==
    (resolveResult # NoResult /\ resolveResult.err = NoError) =>
        LET after == stateStore[resolveResult.sessionID]
        IN IF after.PendingApprovals = <<>>
              /\ FoundState.Status = ExecutionStatusWaitingApproval
             THEN after.Status = (IF resolveResult.approve
                                    THEN ExecutionStatusIdle
                                    ELSE ExecutionStatusFailed)
             ELSE after.Status = FoundState.Status

\* approvals remain pending after a refusal: the status stays waiting_approval
C29_Witness ==
    /\ resolveResult # NoResult
    /\ resolveResult.err = NoError
    /\ ~resolveResult.approve
    /\ FoundState.Status = ExecutionStatusWaitingApproval
    /\ Len(FoundState.PendingApprovals) = 2
    /\ Len(stateStore[<<"s">>].PendingApprovals) = 1
    /\ stateStore[<<"s">>].Status = ExecutionStatusWaitingApproval

\* the outcome of every check of a request, in the order of the claim:
\* version, query, inputs, session, primary callback, each additional
\* callback, presence of a callback, workflow declaration
CheckOutcomes(r) ==
    <<IF TrimSpace(r.Version) \notin {<<>>, CurrentWorkflowVersion}
        THEN ValidationError("version", 0, "not supported") ELSE NoValidationError,
      IF TrimSpace(r.Query) = <<>>
        THEN ValidationError("query", 0, "query is required") ELSE NoValidationError,
      validateInputs(r.Inputs),
      IF validateSession(r.Session) # "nil"
        THEN ValidationError("session", 0, validateSession(r.Session))
        ELSE NoValidationError,
      IF ~isCallbackEmpty(r.Callback) /\ CallbackValidate(r.Callback) # "nil"
        THEN ValidationError("callback", 0, CallbackValidate(r.Callback))
        ELSE NoValidationError>>
    \o [i \in 1..Len(r.Callbacks) |->
          IF CallbackValidate(r.Callbacks[i]) # "nil"
            THEN ValidationError("callbacks", i - 1, CallbackValidate(r.Callbacks[i]))
            ELSE NoValidationError]
    \o <<IF isCallbackEmpty(r.Callback) /\ Len(r.Callbacks) = 0
           THEN ValidationError("callbacks", 0, "at least one callback is required")
           ELSE NoValidationError,
         IF validateWorkflowDeclaration(r.Workflow) # "nil"
           THEN ValidationError("workflow", 0, validateWorkflowDeclaration(r.Workflow))
           ELSE NoValidationError>>

Validated == call # NoResult /\ call.kind = "ValidateWorkflowRequest"

\* C22: ValidateWorkflowRequest returns nil exactly when every check passes,
\* and otherwise the error of the first check that fails in the order
\* version, query, inputs, session, primary callback, each additional
\* callback by index, presence of at least one callback, workflow.
C22_FirstFailingCheck ==
    Validated =>
        LET outcomes == CheckOutcomes(call.req)
            failing == {i \in 1..Len(outcomes) : outcomes[i] # NoValidationError}
        IN /\ call.err = NoValidationError <=> failing = {}
           /\ failing # {} =>
                \E i \in failing :
                    /\ \A j \in failing : i <= j
                    /\ call.err = outcomes[i]

\* the second additional callback and the workflow fail: callbacks[1] is named
C22_Witness ==
    /\ Validated
    /\ call.err.check = "callbacks"
    /\ call.err.index = 1
    /\ call.err.cause = "not a valid URL"
    /\ isCallbackEmpty(call.req.Callback)
    /\ validateWorkflowDeclaration(call.req.Workflow) = "duplicate agent name"
    /\ call.req.Inputs # <<>>

Built == call # NoResult /\ call.kind = "buildInputItems"

\* what the claim says of one input that converts
ItemAsClaimed(in, item) ==
    /\ item.kind = "message"
    /\ (ToLower(TrimSpace(in.Type)) = MessageType /\ in.Content.kind = "string")
          => item.Content = [kind |-> "string", value |-> in.Content.value]
    /\ (ToLower(TrimSpace(in.Type)) = MessageType /\ in.Content.kind = "list")
          => /\ item.Content.kind = "list"
             /\ Len(item.Content.parts) = Len(in.Content.parts)
             /\ \A i \in 1..Len(in.Content.parts) :
                   item.Content.parts[i] = buildContentUnion(in.Content.parts[i]).value
    /\ (ToLower(TrimSpace(in.Type)) = ImageType /\ in.Content.kind = "nil")
          => /\ item.Content.kind = "list"
             /\ Len(item.Content.parts) = 1
             /\ item.Content.parts[1].kind = "input_image"
             /\ item.Content.parts[1].ImageURL = TrimSpace(in.URI)

\* the inputs the claim says yield a message: string content, or an image
\* with only a URI, under a role that is supported
YieldsMessage(in) ==
    /\ normalizeMessageRole(in.Role).ok
    /\ \/ ToLower(TrimSpace(in.Type)) = MessageType /\ in.Content.kind = "string"
       \/ /\ ToLower(TrimSpace(in.Type)) = ImageType
          /\ in.Content.kind = "nil"
          /\ TrimSpace(in.URI) # <<>>

\* C23: buildInputItems returns one message item per input, in input order:
\* string content stays string content, a content list keeps the number and
\* order of its parts, an image input with only a URI becomes one message
\* with a single image part carrying that URL (trimmed); when an input fails
\* to convert, the error names the index of the first such input and no
\* items are returned.
C23_OneItemPerInput ==
    Built =>
        LET failing == {i \in 1..Len(call.inputs) :
                            ~workflowInputToResponseItem(call.inputs[i]).ok}
        IN /\ \A i \in failing : ~YieldsMessage(call.inputs[i])
           /\ IF failing = {}
                THEN /\ call.result.ok
                     /\ Len(call.result.items) = Len(call.inputs)
                     /\ \A i \in 1..Len(call.inputs) :
                           ItemAsClaimed(call.inputs[i], call.result.items[i])
                ELSE /\ ~call.result.ok
                     /\ call.result.items = <<>>
                     /\ call.result.index + 1 \in failing
                     /\ \A j \in failing : call.result.index + 1 <= j

\* an image input with only a URI, then a message with a list of two parts
C23_Witness ==
    /\ Built
    /\ call.result.ok
    /\ Len(call.inputs) = 2
    /\ ToLower(TrimSpace(call.inputs[1].Type)) = ImageType
    /\ call.result.items[1].Content.parts[1].ImageURL = <<"u">>
    /\ call.inputs[2].Content.kind = "list"
    /\ Len(call.result.items[2].Content.parts) = 2
    /\ call.result.items[2].Content.parts[1].kind = "input_text"
    /\ call.result.items[2].Content.parts[2].kind = "input_image"

Published == call # NoResult /\ call.kind = "Publish"

\* C30: multiCallbackPublisher.Publish delivers the event to every non-nil
\* publisher, in list order, also after a publisher has failed, and returns
\* the first error met (nil when no publisher failed).
C30_PublishToAll ==
    Published =>
        LET m == call.publishers
            live == {i \in 1..Len(m) : ~m[i].nil}
            failing == {i \in live : m[i].err # NoError}
            delivered == call.result.delivered
        IN /\ Len(delivered) = Cardinality(live)
           /\ \A i \in live : \E k \in 1..Len(delivered) : delivered[k] = i
           /\ \A k \in 1..(Len(delivered) - 1) : delivered[k] < delivered[k + 1]
           /\ failing = {} => call.result.err = NoError
           /\ failing # {} =>
                \E i \in failing :
                    /\ \A j \in failing : i <= j
                    /\ call.result.err = m[i].err

\* a failing publisher, a nil one, then another failing one: both get the
\* event and the first error is returned
C30_Witness ==
    /\ Published
    /\ call.publishers
          = <<CallbackPublisher("e2"), NilPublisher, CallbackPublisher("e1")>>
    /\ call.result.delivered = <<1, 3>>
    /\ call.result.err = "e2"

\* C24: a reader of RawResponses() concurrent with appendRawResponses sees
\* the list as it was before the call or as it is after it, with none or
\* all of the responses the call appends: every list read is one of the
\* lists the writer has stored.
C24_NoTornRead ==
    \A i \in 1..Len(reads) :
        \E k \in 1..Len(committed) : reads[i] = committed[k]

\* a read taken while an append was writing in place, which saw the list
\* without the responses being appended
C24_Witness ==
    /\ Len(reads) = 1
    /\ wPc = "write"
    /\ wIdx > 1
    /\ wTarget = wHeader.arr
    /\ wTarget = rdHeader.arr
    /\ reads[1] = committed[Len(committed)]
    /\ reads[1] # <<>>

\* C27: with the run-execution task as the only writer, the raw responses
\* only grow by appending: of two reads of RawResponses() by one observer,
\* the earlier is a prefix of the later.
C27_ReadsGrow ==
    \A i, j \in 1..Len(reads) : i < j => IsPrefix(reads[i], reads[j])

C27_Witness ==
    /\ Len(reads) = 2
    /\ Len(reads[1]) = 1
    /\ Len(reads[2]) = 3
    /\ IsPrefix(reads[1], reads[2])

\* C25: checkErrors records a turn-limit error exactly when the current turn
\* is strictly greater than max turns (none at equality), and a poll of a
\* freshly created state records no error at all.
C25_TurnLimitStrict ==
    polls >= 1 =>
        /\ (\E i \in 1..Len(pollRecorded) : pollRecorded[i] = MaxTurnsExceededError)
              <=> currentTurn > maxTurns
        /\ ~started => (pollRecorded = <<>> /\ storedError = NoError)

\* a poll at the limit, with a failed run task: the task error only
C25_Witness ==
    /\ polls = 1
    /\ currentTurn = MaxTurnsLimit
    /\ maxTurns = MaxTurnsLimit
    /\ pollRecorded = <<RunImplTaskError>>
    /\ storedError = RunImplTaskError

\* C28: the snapshot is attached to a task error only when the error
\* carries no RunData: once a task error has RunData, no later poll changes
\* it, whatever has become of the items, the responses and the agent.
C28_RunDataKept ==
    [][\A t \in TaskNames :
          taskErrorData[t] # NoRunData => taskErrorData'[t] = taskErrorData[t]]_vars

\* two polls found the failed run task; an item, a response and the agent
\* came in between, and the snapshot is still the one of the first poll
C28_Witness ==
    /\ polls = 2
    /\ runImplTask = TaskFinish(RunningTask, TRUE)
    /\ taskErrorData["run_impl"].kind = "snapshot"
    /\ taskErrorData["run_impl"].NewItems = <<>>
    /\ taskErrorData["run_impl"].LastAgent = NilAgent
    /\ newItems # <<>>
    /\ rawResponses # <<>>
    /\ currentAgent # NilAgent

\* a task that is there, done, and has failed
PollTaskFailed(t) == t.st # "nil" /\ t.st = "done" /\ t.err

\* C31: when several fatal conditions hold in one checkErrors poll, the
\* stored error the poll leaves is that of the last matching check in the
\* order turn limit, tripwire, run-execution task, input-guardrail task,
\* output-guardrail task (here the guardrail queue is filled before the
\* first poll only, so only that poll can drain a tripped result).
C31_LastCheckWins ==
    polls >= 1 =>
        storedError =
            IF PollTaskFailed(outputGuardrailsTask) THEN OutputGuardrailsTaskError
            ELSE IF PollTaskFailed(inputGuardrailsTask) THEN InputGuardrailsTaskError
            ELSE IF PollTaskFailed(runImplTask) THEN RunImplTaskError
            ELSE IF polls = 1 /\ tripDrained THEN InputGuardrailTripwireTriggeredError
            ELSE IF currentTurn > maxTurns THEN MaxTurnsExceededError
            ELSE IF tripDrained THEN InputGuardrailTripwireTriggeredError
            ELSE NoError

\* turn limit, tripwire, run task and output-guardrail task all match in one
\* poll: the output-guardrail task error is left
C31_Witness ==
    /\ polls = 1
    /\ currentTurn > maxTurns
    /\ tripDrained
    /\ PollTaskFailed(runImplTask)
    /\ ~PollTaskFailed(inputGuardrailsTask)
    /\ PollTaskFailed(outputGuardrailsTask)
    /\ pollRecorded = <<MaxTurnsExceededError, InputGuardrailTripwireTriggeredError,
                        RunImplTaskError, OutputGuardrailsTaskError>>
    /\ storedError = OutputGuardrailsTaskError

\* C32: a stored error that is non-nil never becomes nil again, whatever
\* step StreamEvents, Cancel or a poll takes, and a StreamEvents call that
\* has returned while an error is stored has not returned nil.
C32_StoredErrorSticks ==
    [][storedError # NoError =>
          /\ storedError' # NoError
          /\ sePc' = "ret" => seRet' # NoError]_vars

\* a second call, made after Cancel has returned, returns the tripwire error
\* that the first call stored
C32_Witness ==
    /\ sePc = "ret"
    /\ seAfterCancel
    /\ seVisits = 0
    /\ ~tripDrained
    /\ storedError = InputGuardrailTripwireTriggeredError
    /\ seRet = InputGuardrailTripwireTriggeredError

C34_CancelAfterAwait ==
    [][sePc' # sePc =>
          /\ taskVars' = taskVars
          /\ (sePc' = "ret" /\ seRet' # VisitorError) =>
                /\ runImplTask'.st # "running"
                /\ inputGuardrailsTask'.st # "running"
                /\ outputGuardrailsTask'.st # "running"]_vars

\* the turn-limit error was stored and returned, Cancel never called: the
\* run-execution task has ended by itself, not cancelled
C34_Witness ==
    /\ sePc = "ret"
    /\ seRet = MaxTurnsExceededError
    /\ rOutcome = "max_turns"
    /\ cDone = 0 /\ cPc = "idle"
    /\ runImplTask.st = "done"
    /\ ~runImplTask.cancelled

\* a StreamEvents call is under way
StreamEventsRunning == sePc \notin {"idle", "ret"}

\* the run-execution task ends with the sentinel as its last queue operation
SentinelAlwaysPushed == [](rOutcome # "cancelled_silent")

\* C35: if every background task finishes and the run-execution task always
\* ends by pushing the sentinel, every StreamEvents call that is under way
\* returns in the end.
C35_EveryCallReturns ==
    SentinelAlwaysPushed => (StreamEventsRunning ~> sePc = "ret")

\* the same when Cancel is never called
EveryCallReturnsWithoutCancel ==
    [](cPc = "idle" /\ cDone = 0) => (StreamEventsRunning ~> sePc = "ret")

\* the latest ResolveApproval approved the last pending approval of a
\* session that was waiting for approval
ApprovedLast ==
    /\ resolveResult # NoResult
    /\ resolveResult.err = NoError
    /\ resolveResult.approve
    /\ FoundState.Status = ExecutionStatusWaitingApproval
    /\ stateStore[resolveResult.sessionID].PendingApprovals = <<>>

\* the Resume call went on to Execute
ResumeProceeded ==
    /\ resumeResult # NoResult
    /\ (svcPc # "idle" \/ taskResult # NoResult)

\* C36: once ResolveApproval has approved the last pending approval of a
\* session in status waiting_approval the stored status is idle, and a Resume
\* that comes next for that session with the stored resume token is rejected
\* with the status error (with the load error if the store cannot be read);
\* a Resume that goes on to Execute found the status waiting_approval or
\* failed.
C36_ResumeAfterApproval ==
    [][ /\ ApprovedLast' =>
              stateStore'[resolveResult'.sessionID].Status = ExecutionStatusIdle
        /\ resumeResult' # resumeResult =>
              LET r == resumeResult'.req
                  state == stateStore[TrimSpace(r.SessionID)]
              IN /\ (/\ ApprovedLast
                     /\ TrimSpace(r.SessionID) = resolveResult.sessionID
                     /\ TrimSpace(r.ResumeToken) = TrimSpace(state.ResumeToken))
                       => /\ resumeResult'.kind = "error"
                          /\ resumeResult'.err \in {"status_not_resumable", "load_error"}
                          /\ ~ResumeProceeded'
                 /\ ResumeProceeded' =>
                       /\ state # NoState
                       /\ state.Status \in {ExecutionStatusWaitingApproval,
                                            ExecutionStatusFailed} ]_vars

\* the only pending approval of a waiting session was approved; the Resume
\* that follows with the stored token gets the status error
C36_Witness ==
    /\ ApprovedLast
    /\ Len(FoundState.PendingApprovals) = 1
    /\ resumeResult # NoResult
    /\ resumeResult.store = stateStore
    /\ resumeResult.req.SessionID = <<" ", "s">>
    /\ resumeResult.req.ResumeToken = <<"t">>
    /\ resumeResult.kind = "error"
    /\ resumeResult.err = "status_not_resumable"

\* the names of the agents a workflow declares, in order
DeclaredNames(workflow) == [i \in 1..Len(workflow.Agents) |-> workflow.Agents[i].Name]

\* every agent a workflow refers to is one it declares
ReferencesDeclared(workflow) ==
    LET names == {DeclaredNames(workflow)[i] : i \in 1..Len(workflow.Agents)}
    IN /\ workflow.StartingAgent \in names
       /\ \A i \in 1..Len(workflow.Agents) :
             /\ \A j \in 1..Len(workflow.Agents[i].Handoffs) :
                   workflow.Agents[i].Handoffs[j].Agent \in names
             /\ \A j \in 1..Len(workflow.Agents[i].AgentTools) :
                   workflow.Agents[i].AgentTools[j].AgentName \in names

\* C37: in a request ValidateWorkflowRequest accepts the agent names are
\* non-empty and pairwise distinct and the starting agent, every handoff
\* target and every agent_tool target are declared agents; Build, which
\* validates first, never returns its unknown-handoff-agent,
\* unknown-agent-tool-agent or missing-starting-agent error.
C37_ValidatedGraph ==
    (call # NoResult /\ call.kind = "Build") =>
        /\ ValidateWorkflowRequest(call.req) = NoValidationError =>
              /\ \A i \in 1..Len(call.req.Workflow.Agents) :
                    /\ DeclaredNames(call.req.Workflow)[i] # <<>>
                    /\ \A j \in 1..(i - 1) :
                          DeclaredNames(call.req.Workflow)[j]
                             # DeclaredNames(call.req.Workflow)[i]
              /\ ReferencesDeclared(call.req.Workflow)
        /\ call.result.kind = "build" =>
              call.result.err \notin {"references unknown handoff agent",
                                      "agent_tool references unknown agent",
                                      "starting agent missing"}

\* two agents, the first hands off to the second and uses it as a tool: the
\* request is accepted and built
C37_Witness ==
    /\ call # NoResult
    /\ call.kind = "Build"
    /\ call.result.kind = "built"
    /\ Len(call.req.Workflow.Agents) = 2
    /\ call.req.Workflow.Agents[1].Handoffs = <<AgentHandoffDeclaration(<<"b">>)>>
    /\ call.req.Workflow.Agents[1].AgentTools = <<AgentToolReference(<<"b">>)>>

\* the type of an input as the conversion reads it
ConvertedType(in) == ToLower(TrimSpace(in.Type))

\* a json, audio or video input that validateInputs lets through
HasUnconvertibleInput(inputs) ==
    \E i \in 1..Len(inputs) :
        ToLower(inputs[i].Type) \in {<<"j", "s", "o", "n">>, <<"a", "u", "d", "i", "o">>,
                                     <<"v", "i", "d", "e", "o">>}

\* C38: Execute goes past the conversion of the inputs only when every input
\* has type message, text or image (trimmed, case-insensitive); a request
\* that passes the validation with a json, audio or video input ends Execute
\* with the convert-inputs error (with Build's error when Build fails for a
\* reason of its own), no task is created, no run is started and no event is
\* published.
C38_UnconvertibleInputs ==
    (call # NoResult /\ call.kind = "Execute") =>
        /\ (svcPc # "idle" \/ taskResult.kind = "summary") =>
              \A i \in 1..Len(call.req.Inputs) :
                 ConvertedType(call.req.Inputs[i]) \in {MessageType, TextType, ImageType}
        /\ (/\ ValidateWorkflowRequest(call.req) = NoValidationError
            /\ HasUnconvertibleInput(call.req.Inputs)) =>
              /\ svcPc = "idle"
              /\ taskResult.kind = "execute_error"
              /\ taskResult.err = (IF call.otherFails = "none" THEN "inputs" ELSE "build")
              /\ published = <<>>
              /\ failedNotified = 0 /\ completedNotified = 0
              /\ summaryError = NoError

\* a request with a jSon input and an HTTP callback passes the validation
\* and Build, and Execute returns the convert-inputs error
C38_Witness ==
    /\ call # NoResult
    /\ call.kind = "Execute"
    /\ ValidateWorkflowRequest(call.req) = NoValidationError
    /\ Len(call.req.Inputs) = 1
    /\ call.req.Inputs[1].Type = <<"j", "S", "o", "n">>
    /\ ~IsStdout(call.req.Callback)
    /\ call.otherFails = "none"
    /\ taskResult.kind = "execute_error"
    /\ taskResult.err = "inputs"
====
